---------------------------- MODULE Spec2Model ----------------------------
(***************************************************************************)
(* Model of the git-auto-push VS Code extension: GitAutoPushCore           *)
(* (directory classifier, branch sync resolver) and GitAutoPush.execute(). *)
(*                                                                         *)
(* Strings are sequences of one-character strings, so that dirname, parse, *)
(* toLowerCase, includes, trim and split are computed character by         *)
(* character, the way the runtime computes them.                           *)
(***************************************************************************)
EXTENDS Naturals, Integers, Sequences, FiniteSets, TLC

---------------------------------------------------------------------------
(* Bounds of the model.                                                    *)

\* Longest workspace path, in segments of PathSegs, of the path-walk runs.
MaxSegs == 3
\* Longest directory listing, in entries.
MaxEntries == 2
\* Longest status output, in tokens of StatusTokens.
MaxStatusLen == 4
\* Invocations of the command that may overlap.
MaxRuns == 2

---------------------------------------------------------------------------
(* Characters and strings.                                                 *)

UpperChars == <<"A","B","C","D","E","F","G","H","I","J","K","L","M",
                "N","O","P","Q","R","S","T","U","V","W","X","Y","Z">>
LowerChars == <<"a","b","c","d","e","f","g","h","i","j","k","l","m",
                "n","o","p","q","r","s","t","u","v","w","x","y","z">>

Letters == {UpperChars[i] : i \in 1..26} \cup {LowerChars[i] : i \in 1..26}

\* One character of String.prototype.toLowerCase.
LowerChar(c) ==
    IF \E i \in 1..26 : UpperChars[i] = c
    THEN LowerChars[CHOOSE i \in 1..26 : UpperChars[i] = c]
    ELSE c

\* String.prototype.toLowerCase
ToLowerCase(s) == [i \in 1..Len(s) |-> LowerChar(s[i])]

\* String.prototype.includes
Includes(s, t) ==
    \E i \in 0..(Len(s) - Len(t)) : SubSeq(s, i + 1, i + Len(t)) = t

\* s.slice(0, end) with a 0-based exclusive end.
Slice0(s, end) == SubSeq(s, 1, end)

Max(S) == CHOOSE x \in S : \A y \in S : y <= x
Min(S) == CHOOSE x \in S : \A y \in S : x <= y

---------------------------------------------------------------------------
(* The path module (posix and win32 flavours), on 0-based indices as in    *)
(* the runtime: At(s, i) is s.charCodeAt(i).                               *)

At(s, i) == s[i + 1]

IsWindows(plat) == plat = "win32"

\* isPathSeparator (win32) or the '/' test (posix)
IsSep(plat, c) == IF IsWindows(plat) THEN c \in {"/", "\\"} ELSE c = "/"

\* isWindowsDeviceRoot
IsDeviceRoot(c) == c \in Letters

\* First index >= from holding a separator, or the length.
NextSep(plat, s, from) ==
    Min({j \in from..Len(s) : j = Len(s) \/ IsSep(plat, At(s, j))})

\* First index >= from holding a non-separator, or the length.
NextNonSep(plat, s, from) ==
    Min({j \in from..Len(s) : j = Len(s) \/ ~IsSep(plat, At(s, j))})

\* The backwards scan of dirname: the last separator at an index >= offset
\* that has a non-separator somewhere after it, or -1.
ScanEnd(plat, s, offset) ==
    LET hits == {i \in offset..(Len(s) - 1) :
                    /\ IsSep(plat, At(s, i))
                    /\ \E j \in (i + 1)..(Len(s) - 1) : ~IsSep(plat, At(s, j))}
    IN IF hits = {} THEN -1 ELSE Max(hits)

\* path.posix.dirname
PosixDirname(s) ==
    IF Len(s) = 0 THEN <<".">>
    ELSE LET hasRoot == At(s, 0) = "/"
             end == ScanEnd("posix", s, 1)
         IN IF end = -1 THEN (IF hasRoot THEN <<"/">> ELSE <<".">>)
            ELSE IF hasRoot /\ end = 1 THEN <<"/", "/">>
            ELSE Slice0(s, end)

\* path.posix.parse(s).root
PosixRoot(s) ==
    IF Len(s) > 0 /\ At(s, 0) = "/" THEN <<"/">> ELSE <<>>

\* The UNC prefix match shared by win32 dirname and parse, for a path of
\* length >= 2 that starts with two separators: "none" (no UNC root),
\* "only" (the path is a UNC root and nothing else) or the index j of the
\* separator that ends the share name ("more").
UncMatch(s) ==
    LET j1 == NextSep("win32", s, 2)
        j2 == NextNonSep("win32", s, j1)
        j3 == NextSep("win32", s, j2)
    IN IF ~(j1 < Len(s) /\ j1 # 2) THEN [kind |-> "none", j |-> 0]
       ELSE IF ~(j2 < Len(s) /\ j2 # j1) THEN [kind |-> "none", j |-> 0]
       ELSE IF j3 = Len(s) THEN [kind |-> "only", j |-> j3]
       ELSE IF j3 # j2 THEN [kind |-> "more", j |-> j3]
       ELSE [kind |-> "none", j |-> 0]

\* path.win32.dirname
Win32Dirname(s) ==
    IF Len(s) = 0 THEN <<".">>
    ELSE IF Len(s) = 1 THEN (IF IsSep("win32", At(s, 0)) THEN s ELSE <<".">>)
    ELSE
      LET unc == IF IsSep("win32", At(s, 0)) /\ IsSep("win32", At(s, 1))
                 THEN UncMatch(s) ELSE [kind |-> "none", j |-> 0]
          rootEnd ==
            IF IsSep("win32", At(s, 0))
            THEN (IF unc.kind = "more" THEN unc.j + 1 ELSE 1)
            ELSE IF IsDeviceRoot(At(s, 0)) /\ At(s, 1) = ":"
            THEN (IF Len(s) > 2 /\ IsSep("win32", At(s, 2)) THEN 3 ELSE 2)
            ELSE -1
          offset == IF rootEnd = -1 THEN 0 ELSE rootEnd
          end == ScanEnd("win32", s, offset)
      IN IF unc.kind = "only" THEN s
         ELSE IF end = -1
              THEN (IF rootEnd = -1 THEN <<".">> ELSE Slice0(s, rootEnd))
              ELSE Slice0(s, end)

\* path.win32.parse(s).root
Win32Root(s) ==
    IF Len(s) = 0 THEN <<>>
    ELSE IF Len(s) = 1 THEN (IF IsSep("win32", At(s, 0)) THEN s ELSE <<>>)
    ELSE IF IsSep("win32", At(s, 0))
    THEN LET unc == IF IsSep("win32", At(s, 1))
                    THEN UncMatch(s) ELSE [kind |-> "none", j |-> 0]
         IN IF unc.kind = "only" THEN s
            ELSE IF unc.kind = "more" THEN Slice0(s, unc.j + 1)
            ELSE Slice0(s, 1)
    ELSE IF IsDeviceRoot(At(s, 0)) /\ At(s, 1) = ":"
    THEN (IF Len(s) <= 2 THEN s
          ELSE IF IsSep("win32", At(s, 2)) THEN Slice0(s, 3)
          ELSE Slice0(s, 2))
    ELSE <<>>

\* dirname of the host's path module
Dirname(plat, s) == IF IsWindows(plat) THEN Win32Dirname(s) ELSE PosixDirname(s)

\* parse(s).root of the host's path module
ParseRoot(plat, s) == IF IsWindows(plat) THEN Win32Root(s) ELSE PosixRoot(s)

---------------------------------------------------------------------------
(* Static tables of GitAutoPushCore.                                       *)

\* windowsSystemPaths of isSystemFolder
windowsSystemPaths == {
    <<"c",":","\\","w","i","n","d","o","w","s">>,
    <<"c",":","\\","p","r","o","g","r","a","m"," ","f","i","l","e","s">>,
    <<"c",":","\\","p","r","o","g","r","a","m"," ","f","i","l","e","s"," ","(","x","8","6",")">>,
    <<"c",":","\\","p","r","o","g","r","a","m","d","a","t","a">>,
    <<"c",":","\\","u","s","e","r","s","\\","p","u","b","l","i","c">>,
    <<"c",":","\\","s","y","s","t","e","m"," ","v","o","l","u","m","e"," ","i","n","f","o","r","m","a","t","i","o","n">>,
    <<"\\","a","p","p","d","a","t","a","\\">>,
    <<"\\","t","e","m","p","\\">>,
    <<"\\","t","m","p","\\">>
}

\* unixSystemPaths of isSystemFolder
unixSystemPaths == {
    <<"/","b","i","n">>,
    <<"/","s","b","i","n">>,
    <<"/","u","s","r","/","b","i","n">>,
    <<"/","u","s","r","/","s","b","i","n">>,
    <<"/","e","t","c">>,
    <<"/","v","a","r">>,
    <<"/","t","m","p">>,
    <<"/","s","y","s">>,
    <<"/","p","r","o","c">>,
    <<"/","d","e","v">>,
    <<"/","b","o","o","t">>,
    <<"/","r","o","o","t">>
}

\* sourceExtensions of hasSourceFiles
sourceExtensions == {
    <<".","p","y">>,
    <<".","j","s">>,
    <<".","t","s">>,
    <<".","j","a","v","a">>,
    <<".","c","p","p">>,
    <<".","c">>,
    <<".","c","s">>,
    <<".","p","h","p">>,
    <<".","r","b">>,
    <<".","g","o">>,
    <<".","r","s">>,
    <<".","s","w","i","f","t">>,
    <<".","k","t">>,
    <<".","s","c","a","l","a">>,
    <<".","s","h">>,
    <<".","b","a","t">>,
    <<".","h","t","m","l">>,
    <<".","c","s","s">>,
    <<".","v","u","e">>,
    <<".","j","s","x">>,
    <<".","t","s","x">>,
    <<".","j","s","o","n">>,
    <<".","x","m","l">>,
    <<".","y","a","m","l">>,
    <<".","y","m","l">>,
    <<".","m","d">>,
    <<".","t","x","t">>,
    <<".","s","q","l">>,
    <<".","r">>,
    <<".","m">>,
    <<".","p","l">>
}

\* configFiles of hasSourceFiles
configFiles == {
    <<"p","a","c","k","a","g","e",".","j","s","o","n">>,
    <<"r","e","q","u","i","r","e","m","e","n","t","s",".","t","x","t">>,
    <<"C","a","r","g","o",".","t","o","m","l">>,
    <<"p","o","m",".","x","m","l">>,
    <<"b","u","i","l","d",".","g","r","a","d","l","e">>,
    <<"M","a","k","e","f","i","l","e">>,
    <<"C","M","a","k","e","L","i","s","t","s",".","t","x","t">>,
    <<"s","e","t","u","p",".","p","y">>,
    <<"p","y","p","r","o","j","e","c","t",".","t","o","m","l">>,
    <<"c","o","m","p","o","s","e","r",".","j","s","o","n">>,
    <<"G","e","m","f","i","l","e">>,
    <<"g","o",".","m","o","d">>
}

\* commonSrcDirs of hasSourceFiles
commonSrcDirs == {
    <<"s","r","c">>,
    <<"l","i","b">>,
    <<"a","p","p">>,
    <<"c","o","m","p","o","n","e","n","t","s">>,
    <<"m","o","d","u","l","e","s">>
}


S_dotgit == <<".","g","i","t">>

---------------------------------------------------------------------------
(* The filesystem seen by existsSync, readdirSync and statSync.  A         *)
(* directory is named by its canonical location: the volume followed by    *)
(* the names on the way down.  gitDirs holds the locations that contain a  *)
(* .git entry.                                                             *)

\* The maximal runs of non-separator characters of s, in order.
RECURSIVE SplitFrom(_, _, _)
SplitFrom(plat, s, from) ==
    LET a == NextNonSep(plat, s, from)
        b == NextSep(plat, s, a)
    IN IF a >= Len(s) THEN <<>>
       ELSE <<SubSeq(s, a + 1, b)>> \o SplitFrom(plat, s, b)

\* The names of s that name something ("." names the directory itself).
Names(plat, s) ==
    SelectSeq(SplitFrom(plat, s, 0), LAMBDA n : n # <<".">>)

\* process.cwd(), the directory relative paths resolve against.
Cwd(plat) ==
    IF IsWindows(plat) THEN << <<"c", ":">>, <<"w">> >>
    ELSE << <<"/">>, <<"w">> >>

LowerAll(names) == [i \in 1..Len(names) |-> ToLowerCase(names[i])]

\* The location a posix path string names.
PosixResolve(s) ==
    IF Len(s) > 0 /\ At(s, 0) = "/"
    THEN << <<"/">> >> \o Names("posix", s)
    ELSE Cwd("posix") \o Names("posix", s)

\* The location a win32 path string names (names compare case-blind).
Win32Resolve(s) ==
    LET r == Win32Root(s)
        rest == SubSeq(s, Len(r) + 1, Len(s))
        tail == LowerAll(Names("win32", rest))
    IN IF r = <<>> THEN Cwd("win32") \o tail
       ELSE IF IsDeviceRoot(r[1])
       THEN (IF Len(r) = 2
             THEN (IF ToLowerCase(r) = Cwd("win32")[1]
                   THEN Cwd("win32") \o tail
                   ELSE <<ToLowerCase(r)>> \o tail)
             ELSE <<ToLowerCase(SubSeq(r, 1, 2))>> \o tail)
       ELSE IF Len(r) = 1 THEN <<Cwd("win32")[1]>> \o tail
       ELSE LET sv == LowerAll(Names("win32", r))
            IN << <<"\\", "\\">> \o sv[1] \o <<"\\">> \o sv[2] >> \o tail

Resolve(plat, s) == IF IsWindows(plat) THEN Win32Resolve(s) ELSE PosixResolve(s)

\* Every directory from the volume root down to loc, loc included.
Chain(loc) == {SubSeq(loc, 1, k) : k \in 1..Len(loc)}

\* The proper ancestors of loc, the volume root included.
Ancestors(loc) == {SubSeq(loc, 1, k) : k \in 1..(Len(loc) - 1)}

---------------------------------------------------------------------------
(* Inputs of the runs.                                                     *)

Platforms == {"win32", "linux", "darwin"}

\* Segments the workspace paths of the path-walk runs are made of.
PathSegs == {<<"/">>, <<"\\">>, <<"c", ":">>, <<"a">>,
             <<"\\", "\\", "s", "\\", "h">>}

RECURSIVE SegPaths(_)
SegPaths(n) ==
    IF n = 0 THEN {<<>>}
    ELSE LET shorter == SegPaths(n - 1)
         IN shorter \cup {p \o s : p \in shorter, s \in PathSegs}

\* Non-empty workspace paths of at most MaxSegs segments.
WalkPaths == SegPaths(MaxSegs) \ {<<>>}

P_w_a == <<"/","w","/","a">>
P_Etc_a == <<"/","E","t","c","/","a">>
P_w_tmp == <<"/","w","/","t","m","p">>
P_w == <<"/","w">>
P_CWindows_a == <<"C",":","\\","W","i","n","d","o","w","s","\\","a">>
P_cw_a == <<"c",":","\\","w","\\","a">>
P_cw_Temp_a == <<"c",":","\\","T","e","m","p","\\","a">>
N_package_json == <<"p","a","c","k","a","g","e",".","j","s","o","n">>
N_Makefile == <<"M","a","k","e","f","i","l","e">>
N_a_PY == <<"a",".","P","Y">>
N_src == <<"s","r","c">>
N_notes == <<"n","o","t","e","s">>
N_dotpy == <<".","p","y">>

\* Workspace paths of the classification runs.
AnalyzePaths == {P_w_a, P_Etc_a, P_w_tmp, P_w, P_CWindows_a, P_cw_a, P_cw_Temp_a}

\* Directory entries: a name and what statSync says of it ("broken": statSync
\* throws, as for a dangling symbolic link).
Entries ==
    {[name |-> N_package_json, kind |-> "file"],
     [name |-> N_Makefile, kind |-> "file"],
     [name |-> N_Makefile, kind |-> "dir"],
     [name |-> N_a_PY, kind |-> "file"],
     [name |-> N_dotpy, kind |-> "file"],
     [name |-> N_src, kind |-> "dir"],
     [name |-> N_notes, kind |-> "file"],
     [name |-> N_notes, kind |-> "broken"]}

RECURSIVE ListingsOf(_)
ListingsOf(n) ==
    IF n = 0 THEN {<<>>}
    ELSE LET shorter == ListingsOf(n - 1)
         IN shorter \cup
            {Append(l, e) : l \in shorter, e \in Entries}

\* Listings of at most MaxEntries entries with pairwise distinct names.
Listings ==
    {l \in ListingsOf(MaxEntries) :
        \A i, j \in 1..Len(l) : i # j => l[i].name # l[j].name}

---------------------------------------------------------------------------
(* State.                                                                  *)

VARIABLES
    platform,       \* os.platform() of the host
    workspaceRoot,  \* GitAutoPushCore.workspaceRoot
    gitDirs,        \* filesystem: the locations that hold a .git entry
    listOk,         \* filesystem: readdirSync(workspaceRoot) succeeds
    listing,        \* filesystem: the entries of workspaceRoot besides .git
    pc,             \* position of the run
    analysis,       \* the DirectoryAnalysis being built
    current,        \* isNestedInGitRepo: local `current`
    root,           \* isNestedInGitRepo: local `root`
    statusOk,       \* checkBranchDivergence: result.success of the status query
    statusOut,      \* checkBranchDivergence: result.stdout of the status query
    diverged,       \* what checkBranchDivergence returned ("none" before)
    issued,         \* how many times runCommand was given each command
    asked,          \* the prompts shown in this run, each with its answer
    results,        \* execute: executionResults
    summaries,      \* how many times printExecutionSummary was called
    choice,         \* handleBranchDivergence: the picked strategy ("none" before)
    resolved,       \* what handleBranchDivergence returned ("none" before)
    currentBranch,  \* push / forcePush: local `currentBranch`
    pushFrom,       \* the call site push() returns to
    pushOk,         \* push: result.success of the last push command
    pushArgs,       \* the branch arguments given to push commands so far
    outcomes,       \* the commands that came back, each with result.success
    runs,           \* where each invocation of git-auto-push.push stands
    rc,             \* one call of runCommand: its promise and what came back
    returned,       \* the DirectoryAnalysis values of the calls before this one
    script,         \* the standalone script that runs ("none" in the extension)
    cmdline,        \* script: the command line it was started with
    argv,           \* script: the positional parameters not yet shifted away
    COMMIT_MESSAGE, \* script: variable COMMIT_MESSAGE ("" when unset)
    BRANCH,         \* script: variable BRANCH ("" when unset)
    FORCE_PUSH,     \* script: variable FORCE_PUSH ("" when unset)
    REPO_PATH,      \* script: variable REPO_PATH ("" when unset)
    workdir,        \* script: the directory its git commands act on
    porcelain,      \* what `git status --porcelain` finds in that directory
    ran,            \* script: the commands it has issued, each with its flags
    exitCode        \* script: its exit status (-1 while it runs)

fsVars == <<platform, workspaceRoot, gitDirs, listOk, listing>>
walkVars == <<current, root>>
divVars == <<statusOk, statusOut, diverged>>
scriptVars == <<script, cmdline, argv, COMMIT_MESSAGE, BRANCH, FORCE_PUSH, REPO_PATH,
                workdir, porcelain, ran, exitCode>>
execVars == <<issued, asked, results, summaries, choice, resolved,
              currentBranch, pushFrom, pushOk, pushArgs, outcomes, runs, rc,
              returned, scriptVars>>
vars == <<platform, workspaceRoot, gitDirs, listOk, listing, pc, analysis,
          current, root, statusOk, statusOut, diverged, issued, asked,
          results, summaries, choice, resolved, currentBranch, pushFrom,
          pushOk, pushArgs, outcomes, runs, rc, returned, scriptVars>>

---------------------------------------------------------------------------
(* The state of a run of execute() before its first step.                  *)

\* Invocations of the git-auto-push.push command in one window.
Runs == 1..MaxRuns

\* The promise of a runCommand call that was not made yet.
NoCall ==
    [phase |-> "idle", command |-> "none", event |-> "none",
     resolveCalls |-> 0, settled |-> FALSE, success |-> FALSE]

Commands ==
    {"git init", "git status --porcelain=v1 --branch", "git pull --rebase",
     "git pull", "git branch --show-current",
     "git push --force-with-lease origin", "git status --porcelain",
     "git add .", "git config user.name", "git config user.name set",
     "git config user.email", "git config user.email set", "git commit",
     "git push origin", "git push -u origin", "gh --version",
     "gh auth status", "gh repo create", "gh repo view --web",
     "git remote get-url origin"}

\* The literal executionResults starts from.
NoResults ==
    [gitInit |-> FALSE, branchSync |-> FALSE, staging |-> FALSE,
     commit |-> FALSE, push |-> FALSE, browserOpen |-> FALSE]

ExecStart ==
    /\ issued = [c \in Commands |-> 0]
    /\ asked = {}
    /\ results = NoResults
    /\ summaries = 0
    /\ choice = "none"
    /\ resolved = "none"
    /\ currentBranch = <<>>
    /\ pushFrom = "none"
    /\ pushOk = FALSE
    /\ pushArgs = {}
    /\ outcomes = {}
    /\ runs = [r \in Runs |-> "idle"]
    /\ rc = NoCall
    /\ returned = <<>>

\* No standalone script runs beside the extension.
NoScript ==
    /\ script = "none"
    /\ cmdline = <<>>
    /\ argv = <<>>
    /\ COMMIT_MESSAGE = ""
    /\ BRANCH = ""
    /\ FORCE_PUSH = ""
    /\ REPO_PATH = ""
    /\ workdir = ""
    /\ porcelain = "clean"
    /\ ran = {}
    /\ exitCode = -1

---------------------------------------------------------------------------
(* Directory classifier: the probes.                                       *)

\* existsSync(join(p, '.git'))
ExistsGit(p) == Resolve(platform, p) \in gitDirs

\* GitAutoPushCore.isGitRepository: existsSync(this.gitPath)
IsGitRepository == ExistsGit(workspaceRoot)

\* What readdirSync(workspaceRoot) returns when it succeeds.
Readdir ==
    IF IsGitRepository
    THEN <<[name |-> S_dotgit, kind |-> "dir"]>> \o listing
    ELSE listing

\* isDirectoryEmpty with a catch block that answers true.
IsDirectoryEmpty_FailureMeansEmpty == IF listOk THEN Len(Readdir) = 0 ELSE TRUE

\* GitAutoPushCore.isDirectoryEmpty
IsDirectoryEmpty == IF listOk THEN Len(Readdir) = 0 ELSE FALSE

\* path.extname of a bare file name, before toLowerCase
Extname(name) ==
    LET dots == {i \in 0..(Len(name) - 1) : At(name, i) = "."}
    IN IF dots = {} THEN <<>>
       ELSE LET d == Max(dots)
            IN IF d = 0 THEN <<>>
               ELSE IF name = <<".", ".">> THEN <<>>
               ELSE SubSeq(name, d + 1, Len(name))

\* The test of one entry inside the loop of hasSourceFiles.
EntryIsSource(e) ==
    \/ /\ e.kind = "file"
       /\ \/ ToLowerCase(Extname(e.name)) \in sourceExtensions
          \/ e.name \in configFiles
    \/ /\ e.kind = "dir"
       /\ e.name \in commonSrcDirs

\* The loop of hasSourceFiles from entry i on: a statSync that throws ends
\* the scan in the catch block.
RECURSIVE ScanEntries(_, _)
ScanEntries(files, i) ==
    IF i > Len(files) THEN FALSE
    ELSE IF files[i].kind = "broken" THEN FALSE
    ELSE IF EntryIsSource(files[i]) THEN TRUE
    ELSE ScanEntries(files, i + 1)

\* GitAutoPushCore.hasSourceFiles
HasSourceFiles == IF listOk THEN ScanEntries(Readdir, 1) ELSE FALSE

\* The fragment list isSystemFolder tests.
SystemPaths == IF IsWindows(platform) THEN windowsSystemPaths ELSE unixSystemPaths

\* isSystemFolder without the toLowerCase of the path.
IsSystemFolder_CaseSensitive ==
    \E sysPath \in SystemPaths : Includes(workspaceRoot, sysPath)

\* GitAutoPushCore.isSystemFolder
IsSystemFolder ==
    LET pathStr == ToLowerCase(workspaceRoot)
    IN \E sysPath \in SystemPaths : Includes(pathStr, sysPath)

\* The DirectoryAnalysis literal before any probe has filled it.
BlankAnalysis ==
    [isGitRepo |-> FALSE, isEmpty |-> FALSE, hasSourceFiles |-> FALSE,
     isSystemFolder |-> FALSE, isNestedRepo |-> FALSE,
     folderType |-> "unknown", gitInitRecommended |-> FALSE,
     warningMessage |-> "", actionRecommendation |-> ""]

\* A chain that tests isEmpty before isNestedRepo.
FolderTypeOf_EmptyBeforeNested(a) ==
    IF a.isGitRepo THEN "existing_git_repo"
    ELSE IF a.isSystemFolder THEN "system_folder"
    ELSE IF a.isEmpty THEN "empty_folder"
    ELSE IF a.isNestedRepo THEN "nested_in_repo"
    ELSE IF a.hasSourceFiles THEN "source_project"
    ELSE "general_folder"

\* A chain that tests isSystemFolder before isGitRepo.
FolderTypeOf_SystemBeforeRepo(a) ==
    IF a.isSystemFolder THEN "system_folder"
    ELSE IF a.isGitRepo THEN "existing_git_repo"
    ELSE IF a.isNestedRepo THEN "nested_in_repo"
    ELSE IF a.isEmpty THEN "empty_folder"
    ELSE IF a.hasSourceFiles THEN "source_project"
    ELSE "general_folder"

\* The conditions of the if / else-if chain of analyzeCurrentDirectory: the
\* branch that is taken.
FolderTypeOf(a) ==
    IF a.isGitRepo THEN "existing_git_repo"
    ELSE IF a.isSystemFolder THEN "system_folder"
    ELSE IF a.isNestedRepo THEN "nested_in_repo"
    ELSE IF a.isEmpty THEN "empty_folder"
    ELSE IF a.hasSourceFiles THEN "source_project"
    ELSE "general_folder"

\* Branch bodies in which the nested branch recommends git init and sets
\* no warning.
BranchOf_NestedRecommends(a, type) ==
    [a EXCEPT !.folderType = type,
              !.gitInitRecommended =
                  type \in {"nested_in_repo", "empty_folder", "source_project",
                            "general_folder"},
              !.warningMessage =
                  IF type = "system_folder"
                  THEN "git init in a system folder is not recommended"
                  ELSE a.warningMessage]

\* The bodies of the branches of the chain: what the branch taken assigns.
BranchOf(a, type) ==
    CASE type = "existing_git_repo" ->
           [a EXCEPT !.folderType = "existing_git_repo",
                     !.actionRecommendation = "already a repository"]
      [] type = "system_folder" ->
           [a EXCEPT !.folderType = "system_folder",
                     !.warningMessage = "git init in a system folder is not recommended",
                     !.actionRecommendation = "run outside system folders"]
      [] type = "nested_in_repo" ->
           [a EXCEPT !.folderType = "nested_in_repo",
                     !.warningMessage = "nested inside an existing repository",
                     !.actionRecommendation = "add as submodule or move"]
      [] type = "empty_folder" ->
           [a EXCEPT !.folderType = "empty_folder",
                     !.gitInitRecommended = TRUE,
                     !.actionRecommendation = "empty folder, good for a new project"]
      [] type = "source_project" ->
           [a EXCEPT !.folderType = "source_project",
                     !.gitInitRecommended = TRUE,
                     !.actionRecommendation = "source files found, git init recommended"]
      [] type = "general_folder" ->
           [a EXCEPT !.folderType = "general_folder",
                     !.gitInitRecommended = TRUE,
                     !.actionRecommendation = "general folder, git init possible"]

\* The if / else-if chain of analyzeCurrentDirectory.
Classified(a) == BranchOf(a, FolderTypeOf(a))

---------------------------------------------------------------------------
(* Directory classifier: the steps of analyzeCurrentDirectory.             *)

\* The first four fields of the literal: isGitRepo, isEmpty, hasSourceFiles,
\* isSystemFolder.
AnalyzeProbes ==
    /\ pc = "analyze"
    /\ analysis' = [BlankAnalysis EXCEPT
                        !.isGitRepo = IsGitRepository,
                        !.isEmpty = IsDirectoryEmpty,
                        !.hasSourceFiles = HasSourceFiles,
                        !.isSystemFolder = IsSystemFolder]
    /\ pc' = "nested_enter"
    /\ UNCHANGED <<fsVars, walkVars, divVars, execVars>>

\* NestedEnter with `current` kept from the call before instead of being a
\* fresh local.
NestedEnter_KeepsCursor ==
    /\ pc = "nested_enter"
    /\ IF IsGitRepository
       THEN /\ analysis' = [analysis EXCEPT !.isNestedRepo = FALSE]
            /\ pc' = "classify"
            /\ UNCHANGED walkVars
       ELSE /\ current' = Dirname(platform, IF returned = <<>>
                                            THEN workspaceRoot ELSE current)
            /\ root' = ParseRoot(platform, current')
            /\ pc' = "walk_test"
            /\ UNCHANGED analysis
    /\ UNCHANGED <<fsVars, divVars, execVars>>

\* isNestedInGitRepo up to the loop: the early return and the two locals.
NestedEnter ==
    /\ pc = "nested_enter"
    /\ IF IsGitRepository
       THEN /\ analysis' = [analysis EXCEPT !.isNestedRepo = FALSE]
            /\ pc' = "classify"
            /\ UNCHANGED walkVars
       ELSE /\ current' = Dirname(platform, workspaceRoot)
            /\ root' = ParseRoot(platform, current')
            /\ pc' = "walk_test"
            /\ UNCHANGED analysis
    /\ UNCHANGED <<fsVars, divVars, execVars>>

\* while (current !== root)
WalkTest ==
    /\ pc = "walk_test"
    /\ IF current # root
       THEN /\ pc' = "walk_body"
            /\ UNCHANGED analysis
       ELSE /\ analysis' = [analysis EXCEPT !.isNestedRepo = FALSE]
            /\ pc' = "classify"
    /\ UNCHANGED <<fsVars, walkVars, divVars, execVars>>

\* The loop body: return true on a .git entry, else step to the parent.
WalkBody ==
    /\ pc = "walk_body"
    /\ IF ExistsGit(current)
       THEN /\ analysis' = [analysis EXCEPT !.isNestedRepo = TRUE]
            /\ pc' = "classify"
            /\ UNCHANGED walkVars
       ELSE /\ current' = Dirname(platform, current)
            /\ pc' = "walk_test"
            /\ UNCHANGED <<analysis, root>>
    /\ UNCHANGED <<fsVars, divVars, execVars>>

\* The folder-type chain and the return.
Classify ==
    /\ pc = "classify"
    /\ analysis' = Classified(analysis)
    /\ pc' = "analyzed"
    /\ UNCHANGED <<fsVars, walkVars, divVars, execVars>>

NextAnalyze ==
    \/ AnalyzeProbes
    \/ NestedEnter
    \/ WalkTest
    \/ WalkBody
    \/ Classify

---------------------------------------------------------------------------
(* analyzeCurrentDirectory called on its own.                              *)

\* At most one location of the chain holds a .git entry.
OneGit(loc) == {{}} \cup {{d} : d \in Chain(loc)}

InitAnalyze ==
    /\ pc = "analyze"
    /\ analysis = BlankAnalysis
    /\ current = <<>>
    /\ root = <<>>
    /\ statusOk = FALSE
    /\ statusOut = <<>>
    /\ diverged = "none"
    /\ ExecStart
    /\ NoScript
    /\ \/ /\ platform \in {"win32", "linux"}
          /\ workspaceRoot \in WalkPaths
          /\ listOk = TRUE
          /\ listing = <<>>
          /\ gitDirs \in SUBSET Chain(Resolve(platform, workspaceRoot))
       \/ /\ platform \in Platforms
          /\ workspaceRoot \in AnalyzePaths
          /\ \/ listOk = TRUE /\ listing \in Listings
             \/ listOk = FALSE /\ listing \in {l \in Listings : Len(l) <= 1}
          /\ gitDirs \in OneGit(Resolve(platform, workspaceRoot))

SpecAnalyze == InitAnalyze /\ [][NextAnalyze]_vars

---------------------------------------------------------------------------
(* analyzeCurrentDirectory called again on the same GitAutoPushCore, the   *)
(* filesystem and the platform left as they were.                          *)

\* Calls of analyzeCurrentDirectory in one behaviour.
MaxCalls == 2

\* The caller keeps the value that came back and calls the method again.
AnalyzeAgain ==
    /\ pc = "analyzed"
    /\ Len(returned) < MaxCalls - 1
    /\ returned' = Append(returned, analysis)
    /\ pc' = "analyze"
    /\ UNCHANGED <<fsVars, analysis, walkVars, divVars, issued, asked, results,
                   summaries, choice, resolved, currentBranch, pushFrom,
                   pushOk, pushArgs, outcomes, runs, rc, scriptVars>>

NextTwice ==
    \/ NextAnalyze
    \/ AnalyzeAgain

SpecTwice == InitAnalyze /\ [][NextTwice]_vars

---------------------------------------------------------------------------
(* The parent-chain walk on its own: every workspace path of WalkPaths,    *)
(* an unreadable-free empty directory, at most one .git on the chain.      *)

InitWalk ==
    /\ pc = "analyze"
    /\ analysis = BlankAnalysis
    /\ current = <<>>
    /\ root = <<>>
    /\ statusOk = FALSE
    /\ statusOut = <<>>
    /\ diverged = "none"
    /\ ExecStart
    /\ NoScript
    /\ platform \in {"win32", "linux"}
    /\ workspaceRoot \in WalkPaths
    /\ listOk = TRUE
    /\ listing = <<>>
    /\ gitDirs \in OneGit(Resolve(platform, workspaceRoot))

\* The walk runs inside one awaited call on a single thread: once in the
\* loop, its next step is always taken.
SpecWalk == InitWalk /\ [][NextAnalyze]_vars /\ WF_vars(WalkTest \/ WalkBody)

---------------------------------------------------------------------------
(* Branch sync resolver: checkBranchDivergence.                            *)

T_header == <<"#","#"," ">>
T_main == <<"m","a","i","n">>
T_upstream == <<".",".",".","o","r","i","g","i","n","/","m","a","i","n">>
T_ahead == <<" ","[","a","h","e","a","d"," ","1","]">>
T_behind == <<" ","[","b","e","h","i","n","d"," ","2","]">>
T_both == <<" ","[","a","h","e","a","d"," ","1",","," ","b","e","h","i","n","d"," ","2","]">>
T_newline == <<"\n">>
T_behind_fix == <<"b","e","h","i","n","d","-","f","i","x">>
T_file_behind == <<" ","M"," ","b","e","h","i","n","d",".","t","x","t">>
T_file_ahead == <<"?","?"," ","a","h","e","a","d",".","m","d">>
S_ahead == <<"a","h","e","a","d">>
S_behind == <<"b","e","h","i","n","d">>

WhiteSpace == {" ", "\n", "\t", "\r"}

\* String.prototype.trim
Trim(s) ==
    LET keep == {i \in 1..Len(s) : s[i] \notin WhiteSpace}
    IN IF keep = {} THEN <<>> ELSE SubSeq(s, Min(keep), Max(keep))

\* s.split('\n')[0]
FirstLine(s) ==
    LET nl == {i \in 1..Len(s) : s[i] = "\n"}
    IN IF nl = {} THEN s ELSE SubSeq(s, 1, Min(nl) - 1)

\* The tests of checkBranchDivergence made on the whole output instead of
\* its first line.
BranchDiverged_AllLines(ok, stdout) ==
    ok /\ Includes(Trim(stdout), S_behind)

\* GitAutoPushCore.checkBranchDivergence, given the result of the status
\* query.
BranchDiverged(ok, stdout) ==
    IF ~ok THEN FALSE
    ELSE LET branchInfo == FirstLine(Trim(stdout))
         IN IF Includes(branchInfo, S_ahead) /\ Includes(branchInfo, S_behind)
            THEN TRUE
            ELSE IF Includes(branchInfo, S_behind) THEN TRUE
            ELSE IF Includes(branchInfo, S_ahead) THEN FALSE
            ELSE FALSE

\* Pieces the status outputs are made of, after the "## " that starts the
\* branch line of `git status --porcelain=v1 --branch`.
StatusSegs == {T_main, T_behind_fix, T_upstream, T_ahead, T_behind, T_both,
               T_newline, T_file_behind, T_file_ahead}

RECURSIVE SegStrings(_)
SegStrings(n) ==
    IF n = 0 THEN {<<>>}
    ELSE LET shorter == SegStrings(n - 1)
         IN shorter \cup {p \o s : p \in shorter, s \in StatusSegs}

\* Outputs of the status query: the header and at most MaxStatusLen pieces.
StatusOutputs == {T_header \o r : r \in SegStrings(MaxStatusLen)}

\* checkBranchDivergence applied to a given result of the status query.
CheckBranchDivergence ==
    /\ pc = "check_div"
    /\ diverged' = BranchDiverged(statusOk, statusOut)
    /\ pc' = "div_done"
    /\ UNCHANGED <<fsVars, walkVars, analysis, statusOk, statusOut, execVars>>

InitDivergence ==
    /\ pc = "check_div"
    /\ platform = "linux"
    /\ workspaceRoot = P_w_a
    /\ gitDirs = {Resolve("linux", P_w_a)}
    /\ listOk = TRUE
    /\ listing = <<>>
    /\ analysis = BlankAnalysis
    /\ current = <<>>
    /\ root = <<>>
    /\ statusOk \in BOOLEAN
    /\ statusOut \in StatusOutputs
    /\ diverged = "none"
    /\ ExecStart
    /\ NoScript

NextDivergence == CheckBranchDivergence

SpecDivergence == InitDivergence /\ [][NextDivergence]_vars

\* The first line of the output as the status query printed it.
RawFirstLine == FirstLine(statusOut)

\* A word occurs in a string at some position.
Occurs(w, s) ==
    \E k \in 1..Len(s) :
        /\ k + Len(w) - 1 <= Len(s)
        /\ \A m \in 1..Len(w) : s[k + m - 1] = w[m]

\* C3: the result follows the decision table on the first line of the
\* status output (both markers: true, only behind: true, only ahead:
\* false, neither: false, failed query: false), whatever follows it.
C3_DecisionTable ==
    (pc = "div_done") =>
        LET ahead == Occurs(S_ahead, RawFirstLine)
            behind == Occurs(S_behind, RawFirstLine)
        IN /\ ~statusOk => diverged = FALSE
           /\ (statusOk /\ ahead /\ behind) => diverged = TRUE
           /\ (statusOk /\ ~ahead /\ behind) => diverged = TRUE
           /\ (statusOk /\ ahead /\ ~behind) => diverged = FALSE
           /\ (statusOk /\ ~ahead /\ ~behind) => diverged = FALSE

\* C3 witness: only "ahead" on the first line and "behind" on a later
\* line: not diverged.
C3_Witness ==
    /\ pc = "div_done" /\ statusOk
    /\ Occurs(S_ahead, RawFirstLine) /\ ~Occurs(S_behind, RawFirstLine)
    /\ Occurs(S_behind, statusOut)
    /\ diverged = FALSE

---------------------------------------------------------------------------
(* GitAutoPush.execute(): prompts, answers and commands.                   *)
(* Answers: "yes" is the first button of a prompt, "no" / "cancel" the     *)
(* second, "dismissed" a prompt closed without an answer (undefined).      *)

Answers == {"yes", "no", "dismissed"}

\* What the run does not touch outside its own variables.
envVars == <<platform, workspaceRoot, listOk, listing, walkVars, analysis,
             statusOk, statusOut, runs, rc, returned, scriptVars>>

\* runCommand(cmd): the command is handed to the shell once more.
Run(cmd) == issued' = [issued EXCEPT ![cmd] = @ + 1]

\* The promise of runCommand(cmd) resolved with success = ok.
Outcome(cmd, ok) == outcomes' = outcomes \cup {<<cmd, ok>>}

\* A prompt was shown and answered.
Ask(prompt, ans) == asked' = asked \cup {<<prompt, ans>>}

\* core.printExecutionSummary(executionResults) followed by the return.
SummaryAndReturn ==
    /\ summaries' = summaries + 1
    /\ pc' = "done"

\* The modal confirmation of the repository.
ConfirmRepository ==
    /\ pc = "confirm"
    /\ \E ans \in Answers :
          /\ Ask("confirm repository", ans)
          /\ pc' = IF ans = "yes" THEN "analyze" ELSE "done"
    /\ UNCHANGED <<envVars, gitDirs, diverged, issued, outcomes, results, summaries,
                   choice, resolved, currentBranch, pushFrom, pushOk, pushArgs>>

\* if (analysis.warningMessage): continue or stop.
WarningPrompt ==
    /\ pc = "analyzed"
    /\ IF analysis.warningMessage # ""
       THEN \E ans \in Answers :
               /\ Ask("continue despite warning", ans)
               /\ pc' = IF ans = "yes" THEN "repo_check" ELSE "done"
       ELSE /\ pc' = "repo_check"
            /\ UNCHANGED asked
    /\ UNCHANGED <<envVars, gitDirs, diverged, issued, outcomes, results, summaries,
                   choice, resolved, currentBranch, pushFrom, pushOk, pushArgs>>

\* if (!analysis.isGitRepo): offer git init.
InitPrompt ==
    /\ pc = "repo_check"
    /\ IF ~analysis.isGitRepo
       THEN \E ans \in Answers :
               /\ Ask("initialise repository", ans)
               /\ pc' = IF ans = "yes" THEN "git_init" ELSE "done"
       ELSE /\ pc' = "status_query"
            /\ UNCHANGED asked
    /\ UNCHANGED <<envVars, gitDirs, diverged, issued, outcomes, results, summaries,
                   choice, resolved, currentBranch, pushFrom, pushOk, pushArgs>>

\* initGitRepository(), then executionResults.gitInit = true; a failed
\* command throws into the catch block of execute.
InitGitRepository ==
    /\ pc = "git_init"
    /\ Run("git init")
    /\ \E ok \in BOOLEAN :
          /\ Outcome("git init", ok)
          /\ IF ok
             THEN /\ gitDirs' = gitDirs \cup {Resolve(platform, workspaceRoot)}
                  /\ results' = [results EXCEPT !.gitInit = TRUE]
                  /\ pc' = "status_query"
                  /\ UNCHANGED summaries
             ELSE /\ SummaryAndReturn
                  /\ UNCHANGED <<gitDirs, results>>
    /\ UNCHANGED <<envVars, diverged, asked, choice, resolved, currentBranch,
                   pushFrom, pushOk, pushArgs>>

\* Status outputs a run of execute draws from.
ExecStatusOutputs == {T_header \o r : r \in SegStrings(2)}

\* An execute that calls the resolver whatever the check returned.
CheckDivergence_ResolvesAnyway ==
    /\ pc = "status_query"
    /\ Run("git status --porcelain=v1 --branch")
    /\ \E ok \in BOOLEAN, out \in ExecStatusOutputs :
          /\ Outcome("git status --porcelain=v1 --branch", ok)
          /\ diverged' = BranchDiverged(ok, out)
          /\ pc' = "picker"
          /\ UNCHANGED results
    /\ UNCHANGED <<envVars, gitDirs, asked, summaries, choice, resolved,
                   currentBranch, pushFrom, pushOk, pushArgs>>

\* if (await this.core.checkBranchDivergence()): the status query and the
\* test of its output; not diverged sets branchSync.
CheckDivergence ==
    /\ pc = "status_query"
    /\ Run("git status --porcelain=v1 --branch")
    /\ \E ok \in BOOLEAN, out \in ExecStatusOutputs :
          /\ Outcome("git status --porcelain=v1 --branch", ok)
          /\ diverged' = BranchDiverged(ok, out)
          /\ IF diverged'
             THEN pc' = "picker" /\ UNCHANGED results
             ELSE /\ pc' = "has_changes"
                  /\ results' = [results EXCEPT !.branchSync = TRUE]
    /\ UNCHANGED <<envVars, gitDirs, asked, summaries, choice, resolved,
                   currentBranch, pushFrom, pushOk, pushArgs>>

Strategies == {"git pull --rebase", "git pull", "git push --force-with-lease",
               "skip"}

\* A switch whose skip case falls into the rebase pull.
PickStrategy_SkipPulls ==
    /\ pc = "picker"
    /\ \E c \in Strategies \cup {"dismissed"} :
          /\ choice' = c
          /\ Ask("strategy", c)
          /\ CASE c = "dismissed" -> resolved' = FALSE /\ pc' = "after_handle"
               [] c = "git pull --rebase" -> pc' = "pull_rebase" /\ UNCHANGED resolved
               [] c = "git pull" -> pc' = "pull_merge" /\ UNCHANGED resolved
               [] c = "git push --force-with-lease" ->
                     pc' = "force_confirm" /\ UNCHANGED resolved
               [] c = "skip" -> pc' = "pull_rebase" /\ UNCHANGED resolved
    /\ UNCHANGED <<envVars, gitDirs, diverged, issued, outcomes, results,
                   summaries, currentBranch, pushFrom, pushOk, pushArgs>>

\* handleBranchDivergence up to the switch: the quick pick and the branch
\* the choice leads to.
PickStrategy ==
    /\ pc = "picker"
    /\ \E c \in Strategies \cup {"dismissed"} :
          /\ choice' = c
          /\ Ask("strategy", c)
          /\ CASE c = "dismissed" -> resolved' = FALSE /\ pc' = "after_handle"
               [] c = "git pull --rebase" -> pc' = "pull_rebase" /\ UNCHANGED resolved
               [] c = "git pull" -> pc' = "pull_merge" /\ UNCHANGED resolved
               [] c = "git push --force-with-lease" ->
                     pc' = "force_confirm" /\ UNCHANGED resolved
               [] c = "skip" -> resolved' = TRUE /\ pc' = "after_handle"
    /\ UNCHANGED <<envVars, gitDirs, diverged, issued, outcomes, results, summaries,
                   currentBranch, pushFrom, pushOk, pushArgs>>

\* A pullRebase that reports success whatever the command did.
PullRebase_AlwaysResolved ==
    /\ pc = "pull_rebase"
    /\ Run("git pull --rebase")
    /\ \E ok \in BOOLEAN :
          /\ Outcome("git pull --rebase", ok)
          /\ resolved' = TRUE
    /\ pc' = "after_handle"
    /\ UNCHANGED <<envVars, gitDirs, diverged, asked, results, summaries,
                   choice, currentBranch, pushFrom, pushOk, pushArgs>>

\* pullRebase
PullRebase ==
    /\ pc = "pull_rebase"
    /\ Run("git pull --rebase")
    /\ \E ok \in BOOLEAN :
          /\ Outcome("git pull --rebase", ok)
          /\ resolved' = ok
    /\ pc' = "after_handle"
    /\ UNCHANGED <<envVars, gitDirs, diverged, asked, results, summaries,
                   choice, currentBranch, pushFrom, pushOk, pushArgs>>

\* pullMerge
PullMerge ==
    /\ pc = "pull_merge"
    /\ Run("git pull")
    /\ \E ok \in BOOLEAN :
          /\ Outcome("git pull", ok)
          /\ resolved' = ok
    /\ pc' = "after_handle"
    /\ UNCHANGED <<envVars, gitDirs, diverged, asked, results, summaries,
                   choice, currentBranch, pushFrom, pushOk, pushArgs>>

\* A force-push branch that pushes whatever the warning was answered.
ConfirmForcePush_Unconditional ==
    /\ pc = "force_confirm"
    /\ \E ans \in Answers :
          /\ Ask("confirm force push", ans)
          /\ pc' = "force_branch"
          /\ UNCHANGED resolved
    /\ UNCHANGED <<envVars, gitDirs, diverged, issued, outcomes, results, summaries,
                   choice, currentBranch, pushFrom, pushOk, pushArgs>>

\* case 'git push --force-with-lease': the warning and its answer.
ConfirmForcePush ==
    /\ pc = "force_confirm"
    /\ \E ans \in Answers :
          /\ Ask("confirm force push", ans)
          /\ IF ans = "yes"
             THEN pc' = "force_branch" /\ UNCHANGED resolved
             ELSE resolved' = FALSE /\ pc' = "after_handle"
    /\ UNCHANGED <<envVars, gitDirs, diverged, issued, outcomes, results, summaries,
                   choice, currentBranch, pushFrom, pushOk, pushArgs>>

\* Outputs of `git branch --show-current`: a branch name, or nothing on a
\* detached HEAD.
BranchOutputs == {T_main \o T_newline, T_newline, <<>>}

\* branchResult.success ? branchResult.stdout.trim() : 'main'
BranchOf2(ok, out) == IF ok THEN Trim(out) ELSE T_main

\* forcePush: the branch query.
ForcePushBranch ==
    /\ pc = "force_branch"
    /\ Run("git branch --show-current")
    /\ \E ok \in BOOLEAN, out \in BranchOutputs :
          /\ Outcome("git branch --show-current", ok)
          /\ currentBranch' = BranchOf2(ok, out)
    /\ pc' = "force_push"
    /\ UNCHANGED <<envVars, gitDirs, diverged, asked, results, summaries,
                   choice, resolved, pushFrom, pushOk, pushArgs>>

\* forcePush: the push itself.
ForcePush ==
    /\ pc = "force_push"
    /\ Run("git push --force-with-lease origin")
    /\ pushArgs' = pushArgs \cup {currentBranch}
    /\ \E ok \in BOOLEAN :
          /\ Outcome("git push --force-with-lease origin", ok)
          /\ resolved' = ok
    /\ pc' = "after_handle"
    /\ UNCHANGED <<envVars, gitDirs, diverged, asked, results, summaries,
                   choice, currentBranch, pushFrom, pushOk>>

\* An execute that goes on whether or not the divergence was resolved.
AfterDivergence_GoesOn ==
    /\ pc = "after_handle"
    /\ results' = [results EXCEPT !.branchSync = resolved]
    /\ pc' = "has_changes"
    /\ UNCHANGED <<envVars, gitDirs, diverged, issued, outcomes, asked, summaries,
                   choice, resolved, currentBranch, pushFrom, pushOk, pushArgs>>

\* executionResults.branchSync = resolved; if (!resolved) print and return.
AfterDivergence ==
    /\ pc = "after_handle"
    /\ results' = [results EXCEPT !.branchSync = resolved]
    /\ IF ~resolved
       THEN SummaryAndReturn
       ELSE pc' = "has_changes" /\ UNCHANGED summaries
    /\ UNCHANGED <<envVars, gitDirs, diverged, issued, outcomes, asked, choice, resolved,
                   currentBranch, pushFrom, pushOk, pushArgs>>

\* hasChanges(): result.success && result.stdout.trim().length > 0
HasChanges ==
    /\ pc = "has_changes"
    /\ Run("git status --porcelain")
    /\ \E ok \in BOOLEAN, out \in {<<>>, T_newline, T_file_ahead \o T_newline} :
          /\ Outcome("git status --porcelain", ok)
          /\ pc' = IF ok /\ Len(Trim(out)) > 0 THEN "stage_q" ELSE "nochange_q"
    /\ UNCHANGED <<envVars, gitDirs, diverged, asked, results, summaries,
                   choice, resolved, currentBranch, pushFrom, pushOk, pushArgs>>

\* No changes: offer to push anyway; otherwise print and return.
NoChangesPrompt ==
    /\ pc = "nochange_q"
    /\ \E ans \in Answers :
          /\ Ask("push without changes", ans)
          /\ IF ans = "yes"
             THEN /\ pushFrom' = "no changes"
                  /\ pc' = "push_branch"
                  /\ UNCHANGED summaries
             ELSE /\ SummaryAndReturn
                  /\ UNCHANGED pushFrom
    /\ UNCHANGED <<envVars, gitDirs, diverged, issued, outcomes, results, choice,
                   resolved, currentBranch, pushOk, pushArgs>>

\* A staging prompt whose answer is not looked at.
StagePrompt_StagesAnyway ==
    /\ pc = "stage_q"
    /\ \E ans \in Answers :
          /\ Ask("stage changes", ans)
          /\ pc' = "add"
          /\ UNCHANGED summaries
    /\ UNCHANGED <<envVars, gitDirs, diverged, issued, outcomes, results,
                   choice, resolved, currentBranch, pushFrom, pushOk, pushArgs>>

\* The staging prompt: anything but yes prints and returns.
StagePrompt ==
    /\ pc = "stage_q"
    /\ \E ans \in Answers :
          /\ Ask("stage changes", ans)
          /\ IF ans = "yes"
             THEN pc' = "add" /\ UNCHANGED summaries
             ELSE SummaryAndReturn
    /\ UNCHANGED <<envVars, gitDirs, diverged, issued, outcomes, results, choice,
                   resolved, currentBranch, pushFrom, pushOk, pushArgs>>

\* addAll() that logs a failed `git add .` instead of throwing.
AddAll_IgnoresFailure ==
    /\ pc = "add"
    /\ Run("git add .")
    /\ \E ok \in BOOLEAN :
          /\ Outcome("git add .", ok)
          /\ results' = [results EXCEPT !.staging = TRUE]
          /\ pc' = "commit_msg"
          /\ UNCHANGED summaries
    /\ UNCHANGED <<envVars, gitDirs, diverged, asked, choice, resolved,
                   currentBranch, pushFrom, pushOk, pushArgs>>

\* addAll(), then executionResults.staging = true.
AddAll ==
    /\ pc = "add"
    /\ Run("git add .")
    /\ \E ok \in BOOLEAN :
          /\ Outcome("git add .", ok)
          /\ IF ok
             THEN /\ results' = [results EXCEPT !.staging = TRUE]
                  /\ pc' = "commit_msg"
                  /\ UNCHANGED summaries
             ELSE SummaryAndReturn /\ UNCHANGED results
    /\ UNCHANGED <<envVars, gitDirs, diverged, asked, choice, resolved,
                   currentBranch, pushFrom, pushOk, pushArgs>>

\* The commit message box: a text, an empty text or a dismissal.
CommitMessagePrompt ==
    /\ pc = "commit_msg"
    /\ \E msg \in {"text", "empty", "dismissed"} :
          /\ Ask("commit message", msg)
          /\ IF msg = "text"
             THEN pc' = "ident_name" /\ UNCHANGED summaries
             ELSE SummaryAndReturn
    /\ UNCHANGED <<envVars, gitDirs, diverged, issued, outcomes, results, choice,
                   resolved, currentBranch, pushFrom, pushOk, pushArgs>>

\* ensureGitIdentity: the user.name query.
IdentityName ==
    /\ pc = "ident_name"
    /\ Run("git config user.name")
    /\ \E ok \in BOOLEAN, out \in {<<>>, T_main \o T_newline} :
          /\ Outcome("git config user.name", ok)
          /\ pc' = IF ~ok \/ Len(Trim(out)) = 0 THEN "ident_set_name" ELSE "ident_email"
    /\ UNCHANGED <<envVars, gitDirs, diverged, asked, results, summaries,
                   choice, resolved, currentBranch, pushFrom, pushOk, pushArgs>>

\* ensureGitIdentity: user.name is set, the result is not looked at.
IdentitySetName ==
    /\ pc = "ident_set_name"
    /\ Run("git config user.name set")
    /\ \E ok \in BOOLEAN : Outcome("git config user.name set", ok)
    /\ pc' = "ident_email"
    /\ UNCHANGED <<envVars, gitDirs, diverged, asked, results, summaries,
                   choice, resolved, currentBranch, pushFrom, pushOk, pushArgs>>

\* ensureGitIdentity: the user.email query.
IdentityEmail ==
    /\ pc = "ident_email"
    /\ Run("git config user.email")
    /\ \E ok \in BOOLEAN, out \in {<<>>, T_main \o T_newline} :
          /\ Outcome("git config user.email", ok)
          /\ pc' = IF ~ok \/ Len(Trim(out)) = 0 THEN "ident_set_email" ELSE "commit"
    /\ UNCHANGED <<envVars, gitDirs, diverged, asked, results, summaries,
                   choice, resolved, currentBranch, pushFrom, pushOk, pushArgs>>

\* ensureGitIdentity: user.email is set, the result is not looked at.
IdentitySetEmail ==
    /\ pc = "ident_set_email"
    /\ Run("git config user.email set")
    /\ \E ok \in BOOLEAN : Outcome("git config user.email set", ok)
    /\ pc' = "commit"
    /\ UNCHANGED <<envVars, gitDirs, diverged, asked, results, summaries,
                   choice, resolved, currentBranch, pushFrom, pushOk, pushArgs>>

\* commit(message) after the identity check, then executionResults.commit.
Commit ==
    /\ pc = "commit"
    /\ Run("git commit")
    /\ \E ok \in BOOLEAN :
          /\ Outcome("git commit", ok)
          /\ IF ok
             THEN /\ results' = [results EXCEPT !.commit = TRUE]
                  /\ pc' = "push_q"
                  /\ UNCHANGED summaries
             ELSE SummaryAndReturn /\ UNCHANGED results
    /\ UNCHANGED <<envVars, gitDirs, diverged, asked, choice, resolved,
                   currentBranch, pushFrom, pushOk, pushArgs>>

\* The push prompt: anything but yes ends the run with the summary.
PushPrompt ==
    /\ pc = "push_q"
    /\ \E ans \in Answers :
          /\ Ask("push", ans)
          /\ IF ans = "yes"
             THEN /\ pushFrom' = "after commit"
                  /\ pc' = "push_branch"
                  /\ UNCHANGED summaries
             ELSE /\ SummaryAndReturn
                  /\ UNCHANGED pushFrom
    /\ UNCHANGED <<envVars, gitDirs, diverged, issued, outcomes, results, choice,
                   resolved, currentBranch, pushOk, pushArgs>>

\* push(): the branch query.
PushBranch ==
    /\ pc = "push_branch"
    /\ Run("git branch --show-current")
    /\ \E ok \in BOOLEAN, out \in BranchOutputs :
          /\ Outcome("git branch --show-current", ok)
          /\ currentBranch' = BranchOf2(ok, out)
    /\ pc' = "push_plain"
    /\ UNCHANGED <<envVars, gitDirs, diverged, asked, results, summaries,
                   choice, resolved, pushFrom, pushOk, pushArgs>>

\* push(): git push origin <branch>.
PushPlain ==
    /\ pc = "push_plain"
    /\ Run("git push origin")
    /\ pushArgs' = pushArgs \cup {currentBranch}
    /\ \E ok \in BOOLEAN :
          /\ Outcome("git push origin", ok)
          /\ pushOk' = ok
          /\ pc' = IF ok THEN "push_end" ELSE "push_retry"
    /\ UNCHANGED <<envVars, gitDirs, diverged, asked, results, summaries,
                   choice, resolved, currentBranch, pushFrom>>

\* push(): the retry with -u.
PushUpstream ==
    /\ pc = "push_retry"
    /\ Run("git push -u origin")
    /\ pushArgs' = pushArgs \cup {currentBranch}
    /\ \E ok \in BOOLEAN :
          /\ Outcome("git push -u origin", ok)
          /\ pushOk' = ok
          /\ pc' = IF ok THEN "push_end" ELSE "create_q"
    /\ UNCHANGED <<envVars, gitDirs, diverged, asked, results, summaries,
                   choice, resolved, currentBranch, pushFrom>>

\* A push() that tries once more whatever the offer was answered.
CreateRepositoryPrompt_PushesAnyway ==
    /\ pc = "create_q"
    /\ \E ans \in Answers :
          /\ Ask("create repository", ans)
          /\ pc' = IF ans = "yes" THEN "gh_version" ELSE "push_final"
    /\ UNCHANGED <<envVars, gitDirs, diverged, issued, outcomes, results,
                   summaries, choice, resolved, currentBranch, pushFrom,
                   pushOk, pushArgs>>

\* push(): offer to create the GitHub repository.
CreateRepositoryPrompt ==
    /\ pc = "create_q"
    /\ \E ans \in Answers :
          /\ Ask("create repository", ans)
          /\ pc' = IF ans = "yes" THEN "gh_version" ELSE "push_end"
    /\ UNCHANGED <<envVars, gitDirs, diverged, issued, outcomes, results, summaries,
                   choice, resolved, currentBranch, pushFrom, pushOk, pushArgs>>

\* createGitHubRepository: gh --version; a failure throws.
GhVersion ==
    /\ pc = "gh_version"
    /\ Run("gh --version")
    /\ \E ok \in BOOLEAN :
          /\ Outcome("gh --version", ok)
          /\ IF ok THEN pc' = "gh_auth" /\ UNCHANGED summaries
             ELSE SummaryAndReturn
    /\ UNCHANGED <<envVars, gitDirs, diverged, asked, results, choice,
                   resolved, currentBranch, pushFrom, pushOk, pushArgs>>

\* createGitHubRepository: gh auth status; a failure throws.
GhAuthStatus ==
    /\ pc = "gh_auth"
    /\ Run("gh auth status")
    /\ \E ok \in BOOLEAN :
          /\ Outcome("gh auth status", ok)
          /\ IF ok THEN pc' = "visibility" /\ UNCHANGED summaries
             ELSE SummaryAndReturn
    /\ UNCHANGED <<envVars, gitDirs, diverged, asked, results, choice,
                   resolved, currentBranch, pushFrom, pushOk, pushArgs>>

\* createGitHubRepository: the visibility pick; a dismissal throws.
PickVisibility ==
    /\ pc = "visibility"
    /\ \E v \in {"public", "private", "dismissed"} :
          /\ Ask("visibility", v)
          /\ IF v = "dismissed" THEN SummaryAndReturn
             ELSE pc' = "gh_create" /\ UNCHANGED summaries
    /\ UNCHANGED <<envVars, gitDirs, diverged, issued, outcomes, results, choice,
                   resolved, currentBranch, pushFrom, pushOk, pushArgs>>

\* createGitHubRepository: gh repo create; a failure throws.
GhRepoCreate ==
    /\ pc = "gh_create"
    /\ Run("gh repo create")
    /\ \E ok \in BOOLEAN :
          /\ Outcome("gh repo create", ok)
          /\ IF ok THEN pc' = "push_final" /\ UNCHANGED summaries
             ELSE SummaryAndReturn
    /\ UNCHANGED <<envVars, gitDirs, diverged, asked, results, choice,
                   resolved, currentBranch, pushFrom, pushOk, pushArgs>>

\* push(): the push after the repository was created.
PushAfterCreate ==
    /\ pc = "push_final"
    /\ Run("git push -u origin")
    /\ pushArgs' = pushArgs \cup {currentBranch}
    /\ \E ok \in BOOLEAN :
          /\ Outcome("git push -u origin", ok)
          /\ pushOk' = ok
    /\ pc' = "push_end"
    /\ UNCHANGED <<envVars, gitDirs, diverged, asked, results, summaries,
                   choice, resolved, currentBranch, pushFrom>>

\* An execute that sets only the push flag after a push without changes.
PushReturns_PushFlagOnly ==
    /\ pc = "push_end"
    /\ IF ~pushOk
       THEN SummaryAndReturn /\ UNCHANGED results
       ELSE IF pushFrom = "no changes"
       THEN /\ results' = [results EXCEPT !.push = TRUE]
            /\ SummaryAndReturn
       ELSE /\ results' = [results EXCEPT !.push = TRUE]
            /\ \E autoOpenBrowser \in BOOLEAN :
                  IF autoOpenBrowser
                  THEN pc' = "browser_gh" /\ UNCHANGED summaries
                  ELSE SummaryAndReturn
    /\ UNCHANGED <<envVars, gitDirs, diverged, issued, outcomes, asked, choice, resolved,
                   currentBranch, pushFrom, pushOk, pushArgs>>

\* push() returns or throws on result.success; execute sets its flags:
\* push, staging and commit on the no-changes path, push after a commit,
\* and goes on to the browser when autoOpenBrowser is set.
PushReturns ==
    /\ pc = "push_end"
    /\ IF ~pushOk
       THEN SummaryAndReturn /\ UNCHANGED results
       ELSE IF pushFrom = "no changes"
       THEN /\ results' = [results EXCEPT !.push = TRUE, !.staging = TRUE,
                                          !.commit = TRUE]
            /\ SummaryAndReturn
       ELSE /\ results' = [results EXCEPT !.push = TRUE]
            /\ \E autoOpenBrowser \in BOOLEAN :
                  IF autoOpenBrowser
                  THEN pc' = "browser_gh" /\ UNCHANGED summaries
                  ELSE SummaryAndReturn
    /\ UNCHANGED <<envVars, gitDirs, diverged, issued, outcomes, asked, choice, resolved,
                   currentBranch, pushFrom, pushOk, pushArgs>>

\* openInBrowser: gh --version.
BrowserGhVersion ==
    /\ pc = "browser_gh"
    /\ Run("gh --version")
    /\ \E ok \in BOOLEAN :
          /\ Outcome("gh --version", ok)
          /\ pc' = IF ok THEN "browser_view" ELSE "browser_url"
    /\ UNCHANGED <<envVars, gitDirs, diverged, asked, results, summaries,
                   choice, resolved, currentBranch, pushFrom, pushOk, pushArgs>>

\* openInBrowser: gh repo view --web; on success it returns and execute sets
\* browserOpen and ends the run with the summary.
BrowserGhView ==
    /\ pc = "browser_view"
    /\ Run("gh repo view --web")
    /\ \E ok \in BOOLEAN :
          /\ Outcome("gh repo view --web", ok)
          /\ IF ok
             THEN /\ results' = [results EXCEPT !.browserOpen = TRUE]
                  /\ SummaryAndReturn
             ELSE /\ pc' = "browser_url"
                  /\ UNCHANGED <<results, summaries>>
    /\ UNCHANGED <<envVars, gitDirs, diverged, asked, choice, resolved,
                   currentBranch, pushFrom, pushOk, pushArgs>>

\* openInBrowser: the remote URL; a failure is caught inside openInBrowser,
\* which returns either way, and execute sets browserOpen and ends the run
\* with the summary.
BrowserRemoteUrl ==
    /\ pc = "browser_url"
    /\ Run("git remote get-url origin")
    /\ \E ok \in BOOLEAN : Outcome("git remote get-url origin", ok)
    /\ results' = [results EXCEPT !.browserOpen = TRUE]
    /\ SummaryAndReturn
    /\ UNCHANGED <<envVars, gitDirs, diverged, asked, choice, resolved,
                   currentBranch, pushFrom, pushOk, pushArgs>>

NextExecute ==
    \/ ConfirmRepository
    \/ WarningPrompt
    \/ InitPrompt
    \/ InitGitRepository
    \/ CheckDivergence
    \/ PickStrategy
    \/ PullRebase
    \/ PullMerge
    \/ ConfirmForcePush
    \/ ForcePushBranch
    \/ ForcePush
    \/ AfterDivergence
    \/ HasChanges
    \/ NoChangesPrompt
    \/ StagePrompt
    \/ AddAll
    \/ CommitMessagePrompt
    \/ IdentityName
    \/ IdentitySetName
    \/ IdentityEmail
    \/ IdentitySetEmail
    \/ Commit
    \/ PushPrompt
    \/ PushBranch
    \/ PushPlain
    \/ PushUpstream
    \/ CreateRepositoryPrompt
    \/ GhVersion
    \/ GhAuthStatus
    \/ PickVisibility
    \/ GhRepoCreate
    \/ PushAfterCreate
    \/ PushReturns
    \/ BrowserGhVersion
    \/ BrowserGhView
    \/ BrowserRemoteUrl

Next == NextAnalyze \/ NextExecute

\* Workspaces of the runs of execute: a plain and a sensitive path, empty
\* or with a manifest, with at most one .git on the way up.
Init ==
    /\ pc = "confirm"
    /\ analysis = BlankAnalysis
    /\ current = <<>>
    /\ root = <<>>
    /\ statusOk = FALSE
    /\ statusOut = <<>>
    /\ diverged = "none"
    /\ ExecStart
    /\ NoScript
    /\ platform = "linux"
    /\ workspaceRoot \in {P_w_a, P_Etc_a}
    /\ listOk = TRUE
    /\ listing \in {<<>>, <<[name |-> N_package_json, kind |-> "file"]>>}
    /\ gitDirs \in OneGit(Resolve(platform, workspaceRoot))

Spec == Init /\ [][Next]_vars

---------------------------------------------------------------------------
(* The command handler and runCommand on their own.                        *)

\* Everything but the invocations and the runCommand call.
runStateVars == <<fsVars, pc, analysis, walkVars, divVars, issued, asked,
                  results, summaries, choice, resolved, currentBranch,
                  pushFrom, pushOk, pushArgs, outcomes, returned, scriptVars>>

\* A window with a workspace open and nothing started.
InitIdle ==
    /\ pc = "idle"
    /\ platform = "linux"
    /\ workspaceRoot = P_w_a
    /\ gitDirs = {Resolve("linux", P_w_a)}
    /\ listOk = TRUE
    /\ listing = <<>>
    /\ analysis = BlankAnalysis
    /\ current = <<>>
    /\ root = <<>>
    /\ statusOk = FALSE
    /\ statusOut = <<>>
    /\ diverged = "none"
    /\ ExecStart
    /\ NoScript

\* The places where execute awaits the operator or a command, in order.
RunPhases ==
    <<"confirm", "warning", "init", "divergence", "changes", "stage",
      "message", "commit", "push", "browser">>

PhaseIndex(ph) == CHOOSE i \in 1..Len(RunPhases) : RunPhases[i] = ph

\* The run was started and has not returned.
InFlight(r) == runs[r] \notin {"idle", "done"}

\* activate: the handler of git-auto-push.push builds a GitAutoPush and
\* calls execute, which comes to rest at its first prompt; nothing is
\* looked at before doing so.
InvokeCommand(r) ==
    /\ runs[r] = "idle"
    /\ runs' = [runs EXCEPT ![r] = RunPhases[1]]
    /\ UNCHANGED <<runStateVars, rc>>

\* The awaited prompt or command of a run comes back and the run goes on
\* to a later await.
RunAdvances(r) ==
    /\ InFlight(r)
    /\ \E j \in (PhaseIndex(runs[r]) + 1)..Len(RunPhases) :
          runs' = [runs EXCEPT ![r] = RunPhases[j]]
    /\ UNCHANGED <<runStateVars, rc>>

\* The awaited prompt or command of a run comes back and execute returns.
RunEnds(r) ==
    /\ InFlight(r)
    /\ runs' = [runs EXCEPT ![r] = "done"]
    /\ UNCHANGED <<runStateVars, rc>>

NextTrigger ==
    \E r \in Runs : InvokeCommand(r) \/ RunAdvances(r) \/ RunEnds(r)

SpecTrigger == InitIdle /\ [][NextTrigger]_vars

\* What the callback of child_process.exec is called with: error is null
\* after an exit with code 0 and an Error otherwise.
ChildEvents ==
    {"exit_zero", "exit_nonzero", "spawn_error", "timeout", "max_buffer"}

\* A test of the exit code alone: a killed child has none.
SuccessOf_ExitCodeOnly(ev) == ev # "exit_nonzero"

\* const success = !error
SuccessOf(ev) == ev = "exit_zero"

\* resolve(v) of the promise: the first call settles it, later calls do
\* nothing.
ResolveWith(call, ok) ==
    [call EXCEPT !.resolveCalls = @ + 1,
                 !.settled = TRUE,
                 !.success = IF call.settled THEN @ ELSE ok]

\* runCommand(command): the executor calls exec; exec either throws at
\* once, which the catch block turns into a failed result, or the child
\* is on its way.
CallRunCommand ==
    /\ rc.phase = "idle"
    /\ \E cmd \in Commands, throws \in BOOLEAN :
          rc' = IF throws
                THEN [ResolveWith(rc, FALSE) EXCEPT
                         !.phase = "settled", !.command = cmd,
                         !.event = "exec_throws"]
                ELSE [rc EXCEPT !.phase = "running", !.command = cmd]
    /\ UNCHANGED <<runStateVars, runs>>

\* The callback given to exec: called once when the child is done, it
\* resolves the promise with success = !error.
ExecCallback ==
    /\ rc.phase = "running"
    /\ \E ev \in ChildEvents :
          rc' = [ResolveWith(rc, SuccessOf(ev)) EXCEPT
                    !.phase = "settled", !.event = ev]
    /\ UNCHANGED <<runStateVars, runs>>

NextRunCommand == CallRunCommand \/ ExecCallback

SpecRunCommand == InitIdle /\ [][NextRunCommand]_vars

---------------------------------------------------------------------------
(* Claims about a run of execute.                                          *)

\* The commands that stage, commit or push.
ChangingCommands ==
    {"git add .", "git commit", "git push origin", "git push -u origin",
     "git push --force-with-lease origin"}

\* The commands execute issues before it calls handleBranchDivergence.
CommandsBeforeResolver == {"git init", "git status --porcelain=v1 --branch"}

\* The force-push warning was answered with something other than yes.
ForcePushDeclined ==
    /\ choice = "git push --force-with-lease"
    /\ \E ans \in Answers \ {"yes"} : <<"confirm force push", ans>> \in asked

\* The commands of the resolver's strategies.
ResolverCommands ==
    {"git pull --rebase", "git pull", "git push --force-with-lease origin"}

\* The positions of a run inside handleBranchDivergence.
InResolver ==
    pc \in {"picker", "pull_rebase", "pull_merge", "force_confirm",
            "force_branch", "force_push"}

\* C1: once the strategy picker is dismissed, the resolver returns false and
\* the run halts: it is at the return of the resolver or over, and no git
\* add, git commit or git push was issued in it.
C1_DismissedPickerHalts ==
    (choice = "dismissed") =>
        /\ pc \in {"after_handle", "done"}
        /\ \A c \in ChangingCommands : issued[c] = 0
        /\ resolved = FALSE

\* C1 witness: a diverged branch, a dismissed picker, and the run over with
\* its summary printed.
C1_Witness ==
    /\ choice = "dismissed"
    /\ pc = "done"
    /\ diverged = TRUE
    /\ summaries = 1
    /\ ~results.branchSync

\* C2: force push picked and its warning not answered yes: the resolver
\* returns false and has issued no command, neither the branch query nor a
\* push.
C2_DeclinedForcePushIssuesNothing ==
    ForcePushDeclined =>
        /\ pc \in {"after_handle", "done"}
        /\ \A c \in Commands \ CommandsBeforeResolver : issued[c] = 0
        /\ pushArgs = {}
        /\ resolved = FALSE

\* C2 witness: the warning dismissed, and the resolver back in execute.
C2_Witness ==
    /\ choice = "git push --force-with-lease"
    /\ <<"confirm force push", "dismissed">> \in asked
    /\ pc = "after_handle"
    /\ resolved = FALSE

\* C12: with skip picked the resolver is back at once with true: no step of
\* it follows the pick, no strategy command is issued in the run, and at
\* its return only the commands issued before it have been issued.
C12_SkipResolvesWithoutCommand ==
    (choice = "skip") =>
        /\ ~InResolver
        /\ \A c \in ResolverCommands : issued[c] = 0
        /\ (pc = "after_handle") =>
              \A c \in Commands \ CommandsBeforeResolver : issued[c] = 0
        /\ resolved = TRUE

\* C12 witness: skip picked, the resolver back in execute with true.
C12_Witness ==
    /\ choice = "skip"
    /\ pc = "after_handle"
    /\ resolved = TRUE
    /\ issued["git status --porcelain=v1 --branch"] = 1

\* The strategy picked and the command that carries it out; a force push
\* counts once its warning was answered yes.
StrategyCommand ==
    [c \in ResolverCommands |->
        CASE c = "git pull --rebase" -> choice = "git pull --rebase"
          [] c = "git pull" -> choice = "git pull"
          [] c = "git push --force-with-lease origin" ->
                /\ choice = "git push --force-with-lease"
                /\ <<"confirm force push", "yes">> \in asked]

\* C13: no strategy command is issued twice, and once the resolver is back
\* from a rebase pull, a merge pull or a confirmed force push, the command
\* was issued once and the resolver returned what the command reported:
\* false on failure, true on success.
C13_StrategyResultIsCommandResult ==
    \A c \in ResolverCommands :
        /\ issued[c] <= 1
        /\ (StrategyCommand[c] /\ ~InResolver) =>
              /\ issued[c] = 1
              /\ <<c, FALSE>> \in outcomes => resolved = FALSE
              /\ <<c, TRUE>> \in outcomes => resolved = TRUE

\* C13 witness: a confirmed force push that failed; the resolver is back
\* with false after one attempt.
C13_Witness ==
    /\ StrategyCommand["git push --force-with-lease origin"]
    /\ pc = "after_handle"
    /\ <<"git push --force-with-lease origin", FALSE>> \in outcomes
    /\ issued["git push --force-with-lease origin"] = 1
    /\ resolved = FALSE

\* The label of the picker that stands for each strategy command.
LabelOf ==
    [c \in ResolverCommands |->
        IF c = "git push --force-with-lease origin"
        THEN "git push --force-with-lease" ELSE c]

\* C14: the resolver is entered only from the divergence check, when the
\* check returned true and no pick was made before in the run (so at most
\* once), and a pull or force push is issued only if its strategy was the
\* one picked.
C14_ResolverOnlyAfterDivergence ==
    /\ [][(pc' = "picker") =>
             /\ pc = "status_query"
             /\ choice = "none"
             /\ diverged' = TRUE]_vars
    /\ [](\A c \in ResolverCommands :
             issued[c] > 0 => <<"strategy", LabelOf[c]>> \in asked)

\* C14 witness: the check returned true, the merge pull was picked and
\* issued, and the resolver is back.
C14_Witness ==
    /\ choice = "git pull"
    /\ pc = "after_handle"
    /\ issued["git pull"] = 1
    /\ diverged = TRUE

\* The push commands of push().
PlainPushCommands == {"git push origin", "git push -u origin"}

\* The prompt was answered in the affirmative: its first button, or a
\* text in the commit message box.
Agreed(prompt) ==
    <<prompt, "yes">> \in asked \/ <<prompt, "text">> \in asked

\* The prompt was shown and answered otherwise, or dismissed.
Declined(prompt) ==
    \E a \in {"no", "dismissed", "empty"} : <<prompt, a>> \in asked

\* C15: git init, git add, git commit and the push commands are issued only
\* after the prompt of their step was answered in the affirmative, and a
\* prompt answered otherwise or dismissed leaves the command of its step
\* and of every later step unissued.
C15_EachStepAfterItsPrompt ==
    /\ issued["git init"] > 0 => Agreed("initialise repository")
    /\ issued["git add ."] > 0 => Agreed("stage changes")
    /\ issued["git commit"] > 0 => Agreed("commit message")
    /\ \A c \in PlainPushCommands :
          issued[c] > 0 => (Agreed("push") \/ Agreed("push without changes"))
    /\ issued["git push --force-with-lease origin"] > 0 =>
          Agreed("confirm force push")
    /\ (Declined("confirm repository") \/ Declined("continue despite warning")
          \/ Declined("initialise repository")) =>
          \A c \in Commands : issued[c] = 0
    /\ Declined("stage changes") =>
          \A c \in {"git add .", "git commit"} \cup PlainPushCommands :
             issued[c] = 0
    /\ Declined("commit message") =>
          \A c \in {"git commit"} \cup PlainPushCommands : issued[c] = 0
    /\ (Declined("push") \/ Declined("push without changes")) =>
          \A c \in PlainPushCommands : issued[c] = 0

\* C15 witness: staging was declined after an agreed git init; the run is
\* over and nothing was staged, committed or pushed.
C15_Witness ==
    /\ Agreed("initialise repository") /\ issued["git init"] = 1
    /\ Declined("stage changes")
    /\ pc = "done"
    /\ issued["git add ."] = 0

\* C16: push() issues the plain push at most once; the push with -u is
\* issued only after the plain push failed, and follows that failure
\* without a prompt; a second push with -u is issued only after the first
\* failed, the operator agreed to create the repository and gh repo create
\* succeeded: at most three push commands, one of them without -u.
C16_OneAutomaticRetry ==
    LET plain == issued["git push origin"]
        upstream == issued["git push -u origin"]
    IN /\ plain <= 1
       /\ upstream <= 2
       /\ upstream >= 1 => <<"git push origin", FALSE>> \in outcomes
       /\ (<<"git push origin", FALSE>> \in outcomes /\ pc # "push_retry")
             => upstream >= 1
       /\ (pc = "push_retry") => (upstream = 0 /\ ~Agreed("create repository")
                                    /\ ~Declined("create repository"))
       /\ upstream = 2 =>
             /\ <<"git push -u origin", FALSE>> \in outcomes
             /\ Agreed("create repository")
             /\ <<"gh repo create", TRUE>> \in outcomes

\* C16 witness: the plain push failed, the retry failed, the repository
\* was created and the third push was issued.
C16_Witness ==
    /\ issued["git push origin"] = 1
    /\ issued["git push -u origin"] = 2
    /\ pc = "push_end"

\* C17 (as claimed): a run of execute that is over has printed the
\* execution summary exactly once, whichever way it ended.
C17_SummaryOncePerRun == (pc = "done") => summaries = 1

\* A step of the run came back with success.
Succeeded(cmd) == <<cmd, TRUE>> \in outcomes

\* C18 (as claimed): when the summary is printed, a flag is true only if
\* its step was carried out and completed: git init, the divergence check
\* (with the resolver's command where one was picked), git add, git
\* commit, a push, and the opening of the repository page.
C18_FlagsMeanCompletedSteps ==
    (summaries > 0) =>
        /\ results.gitInit => Succeeded("git init")
        /\ results.branchSync =>
              /\ Succeeded("git status --porcelain=v1 --branch")
              /\ choice # "none" => \E c \in ResolverCommands : Succeeded(c)
        /\ results.staging => Succeeded("git add .")
        /\ results.commit => Succeeded("git commit")
        /\ results.push => \E c \in PlainPushCommands : Succeeded(c)
        /\ results.browserOpen =>
              \/ Succeeded("gh repo view --web")
              \/ Succeeded("git remote get-url origin")

\* C19 (as claimed): at most one run of execute is in flight for the
\* workspace at any time.
C19_OneRunInFlight == Cardinality({r \in Runs : InFlight(r)}) <= 1

\* C20: the promise of runCommand is resolved exactly once, never before
\* exec threw or its callback ran, and with success = false after a spawn
\* error, a non-zero exit, a timeout, an output overflow or a throwing exec;
\* only an exit with code 0 gives success = true.
C20_ResolvesOnceWithResult ==
    /\ (rc.phase = "settled") =>
          /\ rc.settled
          /\ rc.resolveCalls = 1
          /\ rc.success <=> (rc.event = "exit_zero")
    /\ (rc.phase # "settled") => (~rc.settled /\ rc.resolveCalls = 0)
    /\ (rc.event \in (ChildEvents \cup {"exec_throws"}) \ {"exit_zero"})
          => ~rc.success

\* C20 witness: the command ran into the timeout and the promise holds a
\* failed result.
C20_Witness ==
    /\ rc.phase = "settled"
    /\ rc.event = "timeout"
    /\ rc.settled /\ ~rc.success
    /\ rc.resolveCalls = 1

---------------------------------------------------------------------------
(* The standalone scripts: git-auto-push.sh, git-auto-push.bat and the     *)
(* batch script with the GitHub steps.  A script is started with a command *)
(* line in a directory whose working tree is clean, dirty, or cannot be    *)
(* queried; each git command it runs may succeed or fail.                  *)

\* Longest command line drawn word by word.
MaxArgs == 3

Scripts == {"sh", "bat", "github_bat"}

\* The option spellings of the usage text, an option nobody knows, a
\* repository path, a commit message and a branch name.
Options == {"-m", "--message", "-b", "--branch", "-f", "--force"}
Words == Options \cup {"-x", "repo", "msg", "dev"}

FreeLists == UNION {[1..n -> Words] : n \in 0..MaxArgs}

\* -m <message>, -b <branch> and -f, each at most once, in every order.
OptionGroups == {<<"-m", "msg">>, <<"-b", "dev">>, <<"-f">>}
Orderings ==
    {q \in UNION {[1..n -> OptionGroups] : n \in 0..Cardinality(OptionGroups)} :
        \A i, j \in 1..Len(q) : i # j => q[i] # q[j]}

RECURSIVE Flatten(_)
Flatten(q) == IF q = <<>> THEN <<>> ELSE Head(q) \o Flatten(Tail(q))

OptionLists == {Flatten(q) : q \in Orderings}
Usage == {<<"repo">> \o l : l \in OptionLists}
ArgLists == FreeLists \cup OptionLists \cup Usage

\* $n / %n: the n-th positional parameter, empty when there is none.
Arg(n) == IF n <= Len(argv) THEN argv[n] ELSE ""

\* What is left of a list after a shift by n; a list shorter than n is used up.
Shifted(a, n) == IF n <= Len(a) THEN SubSeq(a, n + 1, Len(a)) ELSE <<>>

\* The state of the extension, which a script never touches.
hostVars == <<fsVars, analysis, walkVars, divVars, issued, asked, results,
              summaries, choice, resolved, currentBranch, pushFrom, pushOk,
              pushArgs, outcomes, runs, rc, returned>>
startVars == <<script, cmdline, porcelain>>
optVars == <<COMMIT_MESSAGE, BRANCH, FORCE_PUSH, REPO_PATH>>

Issue(cmds) == ran' = ran \cup cmds
Exit(code) == pc' = "exit" /\ exitCode' = code
Goto(label) == pc' = label /\ UNCHANGED exitCode

\* The words git push takes as its force flag.
ForceWords == {"-f", "--force"}

\* A push that passes the force flag whatever the options were.
PushCommand_Forced == "git push --force"

\* git push origin <branch> [$FORCE_PUSH]: the force flag reaches git push
\* through FORCE_PUSH, or as the word that -b put into BRANCH.
PushCommand ==
    IF FORCE_PUSH # "" \/ BRANCH \in ForceWords
    THEN "git push --force"
    ELSE "git push"

\* git push -u origin <branch>
RetryCommand ==
    IF BRANCH \in ForceWords THEN "git push -u --force" ELSE "git push -u"

\* What `git branch --show-current` may print: a branch, or nothing on a
\* detached HEAD.
BranchNames == {"main", ""}

---------------------------------------------------------------------------
(* git-auto-push.sh (runs under set -e).                                   *)

\* ShParseArgs with the catch-all arm skipping the word, as the batch
\* scripts do.
ShParseArgs_SkipsUnknown ==
    /\ script = "sh"
    /\ pc = "sh.parse_args"
    /\ IF Len(argv) = 0
       THEN Goto("sh.start") /\ UNCHANGED <<argv, optVars>>
       ELSE CASE argv[1] \in {"-m", "--message"} ->
                   /\ COMMIT_MESSAGE' = Arg(2)
                   /\ IF Len(argv) >= 2
                      THEN argv' = Shifted(argv, 2) /\ Goto("sh.parse_args")
                      ELSE UNCHANGED argv /\ Exit(1)
                   /\ UNCHANGED <<BRANCH, FORCE_PUSH, REPO_PATH>>
              [] argv[1] \in {"-b", "--branch"} ->
                   /\ BRANCH' = Arg(2)
                   /\ IF Len(argv) >= 2
                      THEN argv' = Shifted(argv, 2) /\ Goto("sh.parse_args")
                      ELSE UNCHANGED argv /\ Exit(1)
                   /\ UNCHANGED <<COMMIT_MESSAGE, FORCE_PUSH, REPO_PATH>>
              [] argv[1] \in {"-f", "--force"} ->
                   /\ FORCE_PUSH' = "--force"
                   /\ argv' = Shifted(argv, 1)
                   /\ Goto("sh.parse_args")
                   /\ UNCHANGED <<COMMIT_MESSAGE, BRANCH, REPO_PATH>>
              [] OTHER ->
                   /\ argv' = Shifted(argv, 1)
                   /\ Goto("sh.parse_args")
                   /\ UNCHANGED optVars
    /\ UNCHANGED <<hostVars, startVars, workdir, ran>>

\* One turn of the while loop with its case statement.  `shift 2` with one
\* parameter left fails, which ends the script under set -e.
ShParseArgs ==
    /\ script = "sh"
    /\ pc = "sh.parse_args"
    /\ IF Len(argv) = 0
       THEN Goto("sh.start") /\ UNCHANGED <<argv, optVars>>
       ELSE CASE argv[1] \in {"-m", "--message"} ->
                   /\ COMMIT_MESSAGE' = Arg(2)
                   /\ IF Len(argv) >= 2
                      THEN argv' = Shifted(argv, 2) /\ Goto("sh.parse_args")
                      ELSE UNCHANGED argv /\ Exit(1)
                   /\ UNCHANGED <<BRANCH, FORCE_PUSH, REPO_PATH>>
              [] argv[1] \in {"-b", "--branch"} ->
                   /\ BRANCH' = Arg(2)
                   /\ IF Len(argv) >= 2
                      THEN argv' = Shifted(argv, 2) /\ Goto("sh.parse_args")
                      ELSE UNCHANGED argv /\ Exit(1)
                   /\ UNCHANGED <<COMMIT_MESSAGE, FORCE_PUSH, REPO_PATH>>
              [] argv[1] \in {"-f", "--force"} ->
                   /\ FORCE_PUSH' = "--force"
                   /\ argv' = Shifted(argv, 1)
                   /\ Goto("sh.parse_args")
                   /\ UNCHANGED <<COMMIT_MESSAGE, BRANCH, REPO_PATH>>
              [] OTHER ->
                   /\ Exit(1)
                   /\ UNCHANGED <<argv, optVars>>
    /\ UNCHANGED <<hostVars, startVars, workdir, ran>>

\* The .git test, the branch query with its `|| echo "main"`, the default
\* for BRANCH.
ShStart ==
    /\ script = "sh"
    /\ pc = "sh.start"
    /\ \/ /\ Exit(1)
          /\ UNCHANGED <<BRANCH, ran>>
       \/ \E ok \in BOOLEAN, out \in BranchNames :
             LET CURRENT_BRANCH == IF ok THEN out ELSE "main"
             IN /\ Issue({"git branch --show-current"})
                /\ BRANCH' = IF BRANCH = "" THEN CURRENT_BRANCH ELSE BRANCH
                /\ Goto("sh.status")
    /\ UNCHANGED <<hostVars, startVars, argv, COMMIT_MESSAGE, FORCE_PUSH,
                   REPO_PATH, workdir>>

\* if [ -z "$(git status --porcelain)" ]: a query that fails prints nothing
\* on stdout either.
ShChangeCheck ==
    /\ script = "sh"
    /\ pc = "sh.status"
    /\ Issue({"git status --porcelain"})
    /\ IF porcelain = "dirty" THEN Goto("sh.add") ELSE Exit(0)
    /\ UNCHANGED <<hostVars, startVars, argv, optVars, workdir>>

ShAdd ==
    /\ script = "sh"
    /\ pc = "sh.add"
    /\ Issue({"git add"})
    /\ \E ok \in BOOLEAN : IF ok THEN Goto("sh.commit") ELSE Exit(1)
    /\ UNCHANGED <<hostVars, startVars, argv, optVars, workdir>>

ShCommit ==
    /\ script = "sh"
    /\ pc = "sh.commit"
    /\ COMMIT_MESSAGE' = IF COMMIT_MESSAGE = "" THEN "auto" ELSE COMMIT_MESSAGE
    /\ Issue({"git commit"})
    /\ \E ok \in BOOLEAN : IF ok THEN Goto("sh.push") ELSE Exit(1)
    /\ UNCHANGED <<hostVars, startVars, argv, BRANCH, FORCE_PUSH, REPO_PATH,
                   workdir>>

ShPush ==
    /\ script = "sh"
    /\ pc = "sh.push"
    /\ Issue({PushCommand})
    /\ \E ok \in BOOLEAN : IF ok THEN Exit(0) ELSE Exit(1)
    /\ UNCHANGED <<hostVars, startVars, argv, optVars, workdir>>

---------------------------------------------------------------------------
(* git-auto-push.bat.                                                      *)

\* One pass from :parse_args to the next goto.
BatParseArgs ==
    /\ script = "bat"
    /\ pc = "bat.parse_args"
    /\ CASE Arg(1) = "" ->
              /\ Goto("bat.start")
              /\ UNCHANGED <<argv, optVars>>
         [] Arg(1) = "-m" ->
              /\ COMMIT_MESSAGE' = Arg(2)
              /\ argv' = Shifted(Shifted(argv, 1), 1)
              /\ Goto("bat.parse_args")
              /\ UNCHANGED <<BRANCH, FORCE_PUSH, REPO_PATH>>
         [] Arg(1) = "-b" ->
              /\ BRANCH' = Arg(2)
              /\ argv' = Shifted(Shifted(argv, 1), 1)
              /\ Goto("bat.parse_args")
              /\ UNCHANGED <<COMMIT_MESSAGE, FORCE_PUSH, REPO_PATH>>
         [] Arg(1) = "-f" ->
              /\ FORCE_PUSH' = "--force"
              /\ argv' = Shifted(argv, 1)
              /\ Goto("bat.parse_args")
              /\ UNCHANGED <<COMMIT_MESSAGE, BRANCH, REPO_PATH>>
         [] OTHER ->
              /\ argv' = Shifted(argv, 1)
              /\ Goto("bat.parse_args")
              /\ UNCHANGED optVars
    /\ UNCHANGED <<hostVars, startVars, workdir, ran>>

\* :start, the .git test, the branch query (for /f sets nothing when the
\* query prints nothing), the default for BRANCH.
BatStart ==
    /\ script = "bat"
    /\ pc = "bat.start"
    /\ \/ /\ Exit(1)
          /\ UNCHANGED <<BRANCH, ran>>
       \/ \E out \in BranchNames :
             LET CURRENT_BRANCH == IF out = "" THEN "main" ELSE out
             IN /\ Issue({"git branch --show-current"})
                /\ BRANCH' = IF BRANCH = "" THEN CURRENT_BRANCH ELSE BRANCH
                /\ Goto("bat.status")
    /\ UNCHANGED <<hostVars, startVars, argv, COMMIT_MESSAGE, FORCE_PUSH,
                   REPO_PATH, workdir>>

\* The output goes to nul; the test is on the exit status of the query.
BatChangeCheck ==
    /\ script = "bat"
    /\ pc = "bat.status"
    /\ Issue({"git status --porcelain"})
    /\ IF porcelain = "failed" THEN Exit(0) ELSE Goto("bat.add")
    /\ UNCHANGED <<hostVars, startVars, argv, optVars, workdir>>

BatAdd ==
    /\ script = "bat"
    /\ pc = "bat.add"
    /\ Issue({"git add"})
    /\ \E ok \in BOOLEAN : IF ok THEN Goto("bat.commit") ELSE Exit(1)
    /\ UNCHANGED <<hostVars, startVars, argv, optVars, workdir>>

BatCommit ==
    /\ script = "bat"
    /\ pc = "bat.commit"
    /\ COMMIT_MESSAGE' = IF COMMIT_MESSAGE = "" THEN "auto" ELSE COMMIT_MESSAGE
    /\ Issue({"git commit"})
    /\ \E ok \in BOOLEAN : IF ok THEN Goto("bat.push") ELSE Exit(1)
    /\ UNCHANGED <<hostVars, startVars, argv, BRANCH, FORCE_PUSH, REPO_PATH,
                   workdir>>

BatPush ==
    /\ script = "bat"
    /\ pc = "bat.push"
    /\ Issue({PushCommand})
    /\ \E ok \in BOOLEAN : IF ok THEN Exit(0) ELSE Exit(1)
    /\ UNCHANGED <<hostVars, startVars, argv, optVars, workdir>>

---------------------------------------------------------------------------
(* The batch script with the GitHub steps.  Inside a parenthesised block   *)
(* %errorlevel% has the value it had when the block was read, so a test of *)
(* it there sees the failure that led into the block.                      *)

\* set "REPO_PATH=%1" and the usage error.
GhbRepoPath ==
    /\ script = "github_bat"
    /\ pc = "ghb.repo_path"
    /\ REPO_PATH' = Arg(1)
    /\ IF Arg(1) = "" THEN Exit(1) ELSE Goto("ghb.parse_args")
    /\ UNCHANGED <<hostVars, startVars, argv, COMMIT_MESSAGE, BRANCH,
                   FORCE_PUSH, workdir, ran>>

\* One pass from :parse_args, whose first command is a shift, to the next
\* goto.
GhbParseArgs ==
    /\ script = "github_bat"
    /\ pc = "ghb.parse_args"
    /\ LET a == Shifted(argv, 1)
           a1 == IF Len(a) >= 1 THEN a[1] ELSE ""
           a2 == IF Len(a) >= 2 THEN a[2] ELSE ""
       IN CASE a1 = "" ->
                 /\ argv' = a
                 /\ Goto("ghb.start")
                 /\ UNCHANGED optVars
            [] a1 = "-m" ->
                 /\ COMMIT_MESSAGE' = a2
                 /\ argv' = Shifted(Shifted(a, 1), 1)
                 /\ Goto("ghb.parse_args")
                 /\ UNCHANGED <<BRANCH, FORCE_PUSH, REPO_PATH>>
            [] a1 = "-b" ->
                 /\ BRANCH' = a2
                 /\ argv' = Shifted(Shifted(a, 1), 1)
                 /\ Goto("ghb.parse_args")
                 /\ UNCHANGED <<COMMIT_MESSAGE, FORCE_PUSH, REPO_PATH>>
            [] a1 = "-f" ->
                 /\ FORCE_PUSH' = "--force"
                 /\ argv' = Shifted(a, 1)
                 /\ Goto("ghb.parse_args")
                 /\ UNCHANGED <<COMMIT_MESSAGE, BRANCH, REPO_PATH>>
            [] OTHER ->
                 /\ argv' = Shifted(a, 1)
                 /\ Goto("ghb.parse_args")
                 /\ UNCHANGED optVars
    /\ UNCHANGED <<hostVars, startVars, workdir, ran>>

\* :start, cd /d "%REPO_PATH%".
GhbStart ==
    /\ script = "github_bat"
    /\ pc = "ghb.start"
    /\ \/ Exit(1) /\ UNCHANGED workdir
       \/ workdir' = REPO_PATH /\ Goto("ghb.github")
    /\ UNCHANGED <<hostVars, startVars, argv, optVars, ran>>

\* The GitHub CLI block: gh missing, not logged in, repository found,
\* creation declined, or creation tried, after which the stale %errorlevel%
\* ends the script.
GhbGitHubCheck ==
    /\ script = "github_bat"
    /\ pc = "ghb.github"
    /\ \/ Issue({"gh --version"}) /\ Goto("ghb.branch")
       \/ Issue({"gh --version", "gh auth status"}) /\ Goto("ghb.branch")
       \/ /\ Issue({"gh --version", "gh auth status", "gh repo view"})
          /\ Goto("ghb.branch")
       \/ /\ Issue({"gh --version", "gh auth status", "gh repo view",
                    "gh repo create"})
          /\ Exit(1)
    /\ UNCHANGED <<hostVars, startVars, argv, optVars, workdir>>

\* :skip_github_check, the branch query and the default for BRANCH.
GhbCurrentBranch ==
    /\ script = "github_bat"
    /\ pc = "ghb.branch"
    /\ \E out \in BranchNames :
          LET CURRENT_BRANCH == IF out = "" THEN "main" ELSE out
          IN /\ Issue({"git branch --show-current"})
             /\ BRANCH' = IF BRANCH = "" THEN CURRENT_BRANCH ELSE BRANCH
    /\ Goto("ghb.status")
    /\ UNCHANGED <<hostVars, startVars, argv, COMMIT_MESSAGE, FORCE_PUSH,
                   REPO_PATH, workdir>>

\* The output goes to nul; the test is on the exit status of the query.
GhbChangeCheck ==
    /\ script = "github_bat"
    /\ pc = "ghb.status"
    /\ Issue({"git status --porcelain"})
    /\ IF porcelain = "failed" THEN Exit(0) ELSE Goto("ghb.stage")
    /\ UNCHANGED <<hostVars, startVars, argv, optVars, workdir>>

\* The list of changes, the staging question, git add.
GhbStage ==
    /\ script = "github_bat"
    /\ pc = "ghb.stage"
    /\ \/ Issue({"git status --porcelain"}) /\ Exit(0)
       \/ /\ Issue({"git status --porcelain", "git add"})
          /\ \E ok \in BOOLEAN : IF ok THEN Goto("ghb.commit") ELSE Exit(1)
    /\ UNCHANGED <<hostVars, startVars, argv, optVars, workdir>>

\* The commit question, the message question when -m gave none, git commit.
GhbCommit ==
    /\ script = "github_bat"
    /\ pc = "ghb.commit"
    /\ \/ Exit(0) /\ UNCHANGED <<COMMIT_MESSAGE, ran>>
       \/ /\ IF COMMIT_MESSAGE = ""
             THEN COMMIT_MESSAGE' \in {"msg", "auto"}
             ELSE UNCHANGED COMMIT_MESSAGE
          /\ Issue({"git commit"})
          /\ \E ok \in BOOLEAN : IF ok THEN Goto("ghb.push_q") ELSE Exit(1)
    /\ UNCHANGED <<hostVars, startVars, argv, BRANCH, FORCE_PUSH, REPO_PATH,
                   workdir>>

\* The push question and the remote check; without a remote the script
\* calls :create_github_repo and then leaves on the stale %errorlevel%.
GhbPushPrompt ==
    /\ script = "github_bat"
    /\ pc = "ghb.push_q"
    /\ \/ Exit(0) /\ UNCHANGED ran
       \/ Issue({"git remote get-url origin"}) /\ Goto("ghb.push")
       \/ Issue({"git remote get-url origin", "gh repo create --push"}) /\ Exit(1)
    /\ UNCHANGED <<hostVars, startVars, argv, optVars, workdir>>

\* The push and, when it fails, the retry with -u, after which the stale
\* %errorlevel% ends the script.
GhbPush ==
    /\ script = "github_bat"
    /\ pc = "ghb.push"
    /\ \/ Issue({PushCommand}) /\ Exit(0)
       \/ Issue({PushCommand, RetryCommand}) /\ Exit(1)
    /\ UNCHANGED <<hostVars, startVars, argv, optVars, workdir>>

---------------------------------------------------------------------------
(* A script started from a shell.                                          *)

EntryOf(s) ==
    CASE s = "sh" -> "sh.parse_args"
      [] s = "bat" -> "bat.parse_args"
      [] s = "github_bat" -> "ghb.repo_path"

InitScripts ==
    /\ script \in Scripts
    /\ pc = EntryOf(script)
    /\ cmdline \in ArgLists
    /\ argv = cmdline
    /\ COMMIT_MESSAGE = ""
    /\ BRANCH = ""
    /\ FORCE_PUSH = ""
    /\ REPO_PATH = ""
    /\ workdir = "."
    /\ porcelain \in {"clean", "dirty", "failed"}
    /\ ran = {}
    /\ exitCode = -1
    /\ platform = "linux"
    /\ workspaceRoot = P_w_a
    /\ gitDirs = {Resolve("linux", P_w_a)}
    /\ listOk = TRUE
    /\ listing = <<>>
    /\ analysis = BlankAnalysis
    /\ current = <<>>
    /\ root = <<>>
    /\ statusOk = FALSE
    /\ statusOut = <<>>
    /\ diverged = "none"
    /\ ExecStart

NextScripts ==
    \/ ShParseArgs
    \/ ShStart
    \/ ShChangeCheck
    \/ ShAdd
    \/ ShCommit
    \/ ShPush
    \/ BatParseArgs
    \/ BatStart
    \/ BatChangeCheck
    \/ BatAdd
    \/ BatCommit
    \/ BatPush
    \/ GhbRepoPath
    \/ GhbParseArgs
    \/ GhbStart
    \/ GhbGitHubCheck
    \/ GhbCurrentBranch
    \/ GhbChangeCheck
    \/ GhbStage
    \/ GhbCommit
    \/ GhbPushPrompt
    \/ GhbPush

SpecScripts == InitScripts /\ [][NextScripts]_vars

\* git-auto-push.sh alone; bash goes on with the loop as long as it can.
InitSh == InitScripts /\ script = "sh"

NextSh ==
    \/ ShParseArgs
    \/ ShStart
    \/ ShChangeCheck
    \/ ShAdd
    \/ ShCommit
    \/ ShPush

SpecSh == InitSh /\ [][NextSh]_vars /\ WF_vars(ShParseArgs)

\* The extension and the scripts side by side: a behaviour is a run of
\* execute or a run of one script.
InitAny == Init \/ InitScripts

NextAny ==
    \/ Next
    \/ NextScripts

SpecAny == InitAny /\ [][NextAny]_vars

---------------------------------------------------------------------------
(* What a command line says, read off the usage text and not off a parse   *)
(* loop.                                                                   *)

Range(q) == {q[i] : i \in 1..Len(q)}

\* The commands that change the repository or the remote.
ScriptChangingCommands ==
    {"git add", "git commit", "git push", "git push --force", "git push -u",
     "git push -u --force"}

\* The word that follows option opt on the command line.
ValueAfter(opt) ==
    IF \E i \in 1..(Len(cmdline) - 1) : cmdline[i] = opt
    THEN cmdline[(CHOOSE i \in 1..(Len(cmdline) - 1) : cmdline[i] = opt) + 1]
    ELSE ""

\* Some word in option position is none of the six option spellings: a
\* word is in option position unless it is the value of -m or -b before it.
RECURSIVE UnknownOption(_)
UnknownOption(a) ==
    IF a = <<>> THEN FALSE
    ELSE IF a[1] \in {"-m", "--message", "-b", "--branch"}
         THEN UnknownOption(Shifted(a, 2))
         ELSE IF a[1] \in {"-f", "--force"}
              THEN UnknownOption(Shifted(a, 1))
              ELSE TRUE

---------------------------------------------------------------------------
(* What holds of the directory itself, whatever the classifier finds.      *)

Analyzed == pc = "analyzed"

\* The workspace directory holds git metadata.
HasGitMetadata == Resolve(platform, workspaceRoot) \in gitDirs

\* Some ancestor of the workspace directory, the volume root included,
\* holds git metadata.
AncestorHasGit ==
    Ancestors(Resolve(platform, workspaceRoot)) \cap gitDirs # {}

\* The lower-cased path contains a fragment of the platform's list
\* (Windows list on Windows, Unix list otherwise).
PathIsSensitive ==
    LET low == ToLowerCase(workspaceRoot)
        frags == IF platform = "win32" THEN windowsSystemPaths ELSE unixSystemPaths
    IN \E f \in frags : \E k \in 1..Len(low) :
          /\ k + Len(f) - 1 <= Len(low)
          /\ \A m \in 1..Len(f) : low[k + m - 1] = f[m]

\* The listing succeeds, is not empty and holds a regular file whose name
\* is one of the manifest names.
HasManifestFile ==
    /\ listOk
    /\ \E i \in 1..Len(listing) :
          listing[i].kind = "file" /\ listing[i].name \in configFiles

FolderTypes == {"existing_git_repo", "system_folder", "nested_in_repo",
                "empty_folder", "source_project", "general_folder"}

\* readdirSync(workspaceRoot) throws.
ListingFails == ~listOk

\* A statSync of the loop of hasSourceFiles throws: the listing holds an
\* entry that cannot be stat'ed and no entry before it ends the scan.
StatFails ==
    /\ listOk
    /\ \E i \in 1..Len(Readdir) :
          /\ Readdir[i].kind = "broken"
          /\ \A j \in 1..(i - 1) :
                Readdir[j].kind # "broken" /\ ~EntryIsSource(Readdir[j])

---------------------------------------------------------------------------
(* Claims about the directory classifier.                                  *)

\* C4 (as claimed): a directory without git metadata that is no system
\* folder and has an ancestor with git metadata, the root included, is
\* reported isNestedRepo with folderType nested_in_repo.
C4_NestedWheneverAncestorHasGit ==
    (Analyzed /\ ~HasGitMetadata /\ ~PathIsSensitive /\ AncestorHasGit)
        => (analysis.isNestedRepo /\ analysis.folderType = "nested_in_repo")

\* C5 (as claimed): the parent-chain walk terminates for every workspace
\* path: once the loop is entered, it is left.
C5_WalkTerminates == (pc = "walk_test") ~> (pc = "classify")

\* C6: the folder type is one of the six labels, and it is the first label
\* of the priority order whose boolean holds; an empty and nested directory
\* is nested_in_repo; an empty directory that is no repository, no system
\* folder and not nested is empty_folder and git init is recommended.
C6_FirstMatchWins ==
    Analyzed =>
        LET a == analysis IN
        /\ a.folderType \in FolderTypes
        /\ a.folderType = "existing_git_repo" <=> a.isGitRepo
        /\ a.folderType = "system_folder" <=> (~a.isGitRepo /\ a.isSystemFolder)
        /\ a.folderType = "nested_in_repo" <=>
              (~a.isGitRepo /\ ~a.isSystemFolder /\ a.isNestedRepo)
        /\ a.folderType = "empty_folder" <=>
              (~a.isGitRepo /\ ~a.isSystemFolder /\ ~a.isNestedRepo /\ a.isEmpty)
        /\ a.folderType = "source_project" <=>
              (~a.isGitRepo /\ ~a.isSystemFolder /\ ~a.isNestedRepo /\ ~a.isEmpty
                 /\ a.hasSourceFiles)
        /\ a.folderType = "general_folder" <=>
              (~a.isGitRepo /\ ~a.isSystemFolder /\ ~a.isNestedRepo /\ ~a.isEmpty
                 /\ ~a.hasSourceFiles)
        /\ (a.folderType = "empty_folder") => a.gitInitRecommended

\* C6 witness: an empty directory found nested is labelled nested_in_repo.
C6_Witness ==
    /\ Analyzed
    /\ analysis.isEmpty /\ analysis.isNestedRepo
    /\ analysis.folderType = "nested_in_repo"

\* C7: a directory with git metadata is existing_git_repo and git init is
\* not recommended, whatever else holds of it.
C7_RepoWins ==
    (Analyzed /\ HasGitMetadata)
        => (analysis.folderType = "existing_git_repo"
              /\ ~analysis.gitInitRecommended)

\* C7 witness: a repository on a sensitive path, with source files and a
\* repository above it.
C7_Witness ==
    /\ Analyzed /\ HasGitMetadata /\ PathIsSensitive
    /\ analysis.hasSourceFiles
    /\ analysis.folderType = "existing_git_repo"

\* C8: a directory without git metadata on a sensitive path of the
\* platform's list is a system folder with a warning.
C8_SensitivePath ==
    (Analyzed /\ ~HasGitMetadata /\ PathIsSensitive)
        => /\ analysis.isSystemFolder
           /\ analysis.folderType = "system_folder"
           /\ analysis.warningMessage # ""

\* C8 witness: a sensitive path written with capitals.
C8_Witness ==
    /\ Analyzed /\ ~HasGitMetadata /\ PathIsSensitive
    /\ workspaceRoot # ToLowerCase(workspaceRoot)
    /\ analysis.folderType = "system_folder"

\* C9 (as claimed): a listed directory with a manifest file, no git
\* metadata, no sensitive path and no repository above it has source files
\* and is source_project, whatever else it holds and in whatever order.
C9_ManifestMeansSourceProject ==
    (Analyzed /\ HasManifestFile /\ ~HasGitMetadata /\ ~PathIsSensitive
       /\ ~AncestorHasGit)
        => (analysis.hasSourceFiles /\ analysis.folderType = "source_project")

\* C10: git init is recommended exactly for empty_folder, source_project
\* and general_folder; the warning is set exactly for system_folder and
\* nested_in_repo.
C10_RecommendationAndWarning ==
    Analyzed =>
        /\ analysis.gitInitRecommended <=>
              analysis.folderType \in {"empty_folder", "source_project", "general_folder"}
        /\ (analysis.warningMessage # "") <=>
              analysis.folderType \in {"system_folder", "nested_in_repo"}

\* C10 witness: a nested directory, with its warning and no recommendation.
C10_Witness ==
    /\ Analyzed
    /\ analysis.folderType = "nested_in_repo"
    /\ analysis.warningMessage # ""
    /\ ~analysis.gitInitRecommended

\* C11: analyzeCurrentDirectory issues no command and leaves the filesystem
\* as it is, and when the listing or a stat of a child fails it returns a
\* classified result with isEmpty = false and hasSourceFiles = false.
C11_FailuresDegrade ==
    /\ []((Analyzed /\ (ListingFails \/ StatFails)) =>
             /\ ~analysis.isEmpty
             /\ ~analysis.hasSourceFiles
             /\ analysis.folderType \in FolderTypes)
    /\ [][fsVars' = fsVars /\ issued' = issued /\ outcomes' = outcomes]_vars

\* C11 witness: the first child cannot be stat'ed and a source file follows
\* it; the result is there, not empty and without source files.
C11_Witness ==
    /\ Analyzed /\ StatFails
    /\ Len(listing) = 2 /\ EntryIsSource(listing[2])
    /\ ~analysis.isEmpty /\ ~analysis.hasSourceFiles

---------------------------------------------------------------------------
(* C21: a call of analyzeCurrentDirectory that follows another one on the  *)
(* same filesystem and platform returns a DirectoryAnalysis equal, field   *)
(* by field, to the one the call before returned.                          *)
C21_SameSnapshotSameAnalysis ==
    (pc = "analyzed" /\ returned # <<>>)
        => analysis = returned[Len(returned)]

\* A second call has returned for a directory nested in a repository.
C21_Witness ==
    /\ pc = "analyzed"
    /\ Len(returned) = 1
    /\ analysis.folderType = "nested_in_repo"
    /\ analysis = returned[1]

---------------------------------------------------------------------------
(* C22 (as claimed): in each standalone script, once `git status           *)
(* --porcelain` has run on a working tree without changes, the script has  *)
(* exited with status 0 and has issued no git add, commit or push.         *)
C22_CleanTreeExitsQuietly ==
    (script \in Scripts /\ porcelain = "clean"
         /\ "git status --porcelain" \in ran)
        => /\ pc = "exit"
           /\ exitCode = 0
           /\ ran \cap ScriptChangingCommands = {}

(* C23 (as claimed): in the batch script with the GitHub steps, for a      *)
(* command line <repo_path> followed by -m <message>, -b <branch> and -f   *)
(* in any combination and order, the parse loop ends with COMMIT_MESSAGE,  *)
(* BRANCH and FORCE_PUSH set for exactly the options given, each with the  *)
(* value that followed it.                                                 *)
C23_OptionsParsed ==
    (script = "github_bat" /\ cmdline \in Usage /\ pc = "ghb.start")
        => /\ COMMIT_MESSAGE = ValueAfter("-m")
           /\ BRANCH = ValueAfter("-b")
           /\ FORCE_PUSH = IF "-f" \in Range(cmdline) THEN "--force" ELSE ""

(* C24: git-auto-push.sh, given a command line with a word in option       *)
(* position that is none of -m/--message, -b/--branch, -f/--force, issues  *)
(* no git command and, once out of the parse loop, has exited with a       *)
(* non-zero status; and the parse loop is left on every command line.      *)
C24_UnknownOptionRejected ==
    /\ [](( script = "sh" /\ UnknownOption(cmdline))
            => /\ ran = {}
               /\ pc # "sh.parse_args" => (pc = "exit" /\ exitCode > 0))
    /\ (script = "sh" /\ pc = "sh.parse_args") ~> (pc # "sh.parse_args")

\* The script has exited on an unknown option that came after a valid -f.
C24_Witness ==
    /\ script = "sh"
    /\ UnknownOption(cmdline)
    /\ FORCE_PUSH = "--force"
    /\ pc = "exit"
    /\ exitCode = 1

(* C25 (as claimed): each standalone script takes the repository path as   *)
(* a required first argument: started with a path and valid options it     *)
(* accepts the command line and runs its git commands in that repository,  *)
(* and started without a path it runs nothing and exits non-zero.          *)
C25_RepositoryPathRequired ==
    /\ (script \in Scripts /\ cmdline \in Usage)
          => /\ pc = "exit" => argv = <<>>
             /\ ran # {} => workdir = cmdline[1]
    /\ (script \in Scripts /\ cmdline \in OptionLists)
          => /\ ran = {}
             /\ pc = "exit" => exitCode > 0

---------------------------------------------------------------------------
(* The order of the commands of one run of execute.                        *)

\* hasChanges() returned false: the run asked whether to push all the same.
NoChangesReported == \E a \in Answers : <<"push without changes", a>> \in asked

\* The steps whose failure throws into the catch block of execute.
ThrowingCommands == {"git init", "git add .", "git commit"}

---------------------------------------------------------------------------
(* The branch header of `git status --porcelain=v1 --branch`:              *)
(* "## <local>", then "...<upstream>" when one is set, then the tracking   *)
(* counts " [ahead n]", " [behind m]" or " [ahead n, behind m]".           *)

LocalNames == {T_main, T_behind_fix}
UpstreamParts == {<<>>, T_upstream}
TrackingParts == {<<>>, T_ahead, T_behind, T_both}

(* C27 (as claimed): checkBranchDivergence returns true only when the      *)
(* tracking counts on the first status line report the local branch as     *)
(* behind its upstream, whatever the local branch and the upstream are     *)
(* called.                                                                 *)
C27_OnlyTrackingCounts ==
    (pc = "div_done" /\ statusOk) =>
        \A n \in LocalNames, u \in UpstreamParts, t \in TrackingParts :
            RawFirstLine = T_header \o n \o u \o t
                => (diverged = (t \in {T_behind, T_both}))

---------------------------------------------------------------------------
(* C28: a push is forced only on the operator's request.  In the extension *)
(* the only forcing command is git push --force-with-lease, issued by the  *)
(* resolver's forcePush after that strategy was picked and its warning     *)
(* answered yes, never by push(); in the shell and batch scripts git push  *)
(* gets a force flag only when -f or --force stood on the command line.    *)
C28_ForceOnlyOnRequest ==
    /\ [](/\ issued["git push --force-with-lease origin"] > 0
              => /\ choice = "git push --force-with-lease"
                 /\ <<"confirm force push", "yes">> \in asked
          /\ ran \cap {"git push --force", "git push -u --force"} # {}
              => Range(cmdline) \cap ForceWords # {})
    /\ [][issued'["git push --force-with-lease origin"]
               > issued["git push --force-with-lease origin"]
            => (pc = "force_push" /\ pushFrom = "none")]_vars

\* git-auto-push.sh has pushed with the force flag after -f set FORCE_PUSH.
C28_Witness ==
    /\ script = "sh"
    /\ FORCE_PUSH = "--force"
    /\ "git push --force" \in ran

---------------------------------------------------------------------------
\* The fields of executionResults.
Flags == DOMAIN NoResults

(* C29: whenever the summary has been printed the flags are ordered:       *)
(* browserOpen implies push, push implies staging, commit and branchSync,  *)
(* commit implies staging; and no step of a run turns a flag that is true  *)
(* back to false.                                                          *)
C29_FlagsOrderedAndMonotone ==
    /\ []((summaries > 0) =>
              /\ results.browserOpen => results.push
              /\ results.push =>
                    (results.staging /\ results.commit /\ results.branchSync)
              /\ results.commit => results.staging)
    /\ [][\A f \in Flags : results[f] => results'[f]]_vars

\* The summary was printed after a push that followed the 'no changes'
\* question, with the resolver having brought the branch in sync.
C29_Witness ==
    /\ summaries = 1
    /\ pushFrom = "no changes"
    /\ results.push
    /\ choice = "git pull"
    /\ ~results.browserOpen

---------------------------------------------------------------------------
(* C30 (as claimed): every push command issued by push() or forcePush()    *)
(* names a branch that is not the empty string, be it the trimmed output   *)
(* of the branch query or the fallback main.                               *)
C30_PushNamesBranch == \A b \in pushArgs : Len(b) > 0

=============================================================================
